---- MODULE Spec2Model ----
(***************************************************************************)
(* A model of the data acquisition and decision engine of etf-dashboard:   *)
(* DataValidator, DataCache, MultiSourceDataLoader, TechnicalIndicators,   *)
(* SignalManager and PortfolioManager.                                     *)
(*                                                                         *)
(* Units.  Prices are integers in mills (0.001), so that rounding to two   *)
(* decimals is a real operation.  Dates are day numbers.  The clock is in  *)
(* hours.  Weights are in units of 0.0001.  Floating point values that can *)
(* be inf or NaN are records (see the section on floats).  Rounding error  *)
(* of binary floating point is not modelled: arithmetic is exact.          *)
(***************************************************************************)
EXTENDS Integers, Sequences, FiniteSets, TLC

VARIABLES
    v_raw,          \* validator run: the raw table handed to validate_price_data
    v_out,          \* validator run: what validate_price_data returned
    v_pc,           \* validator run: "off" | "build" | "done" | "measured"
    d_out,          \* what calculate_max_drawdown returned for the validated closes
    r_prices,       \* RSI run: the price series handed to calculate_rsi
    r_period,       \* RSI run: the period handed to calculate_rsi
    r_out,          \* RSI run: what calculate_rsi returned
    r_pc,           \* RSI run: "off" | "build" | "done"
    s_tech,         \* signal run: the TechnicalData being evaluated
    s_signal,       \* signal run: what generate_buy_signal returned
    s_pc,           \* signal run: "off" | "ready" | "done"
    t_periods,      \* trend run: config.indicators.ma_periods
    t_ma,           \* trend run: the latest row of ma_data, by MA period
    t_trend,        \* trend run: what get_trend_status returned
    t_pc,           \* trend run: "off" | "ready" | "done"
    portfolio_config,   \* PortfolioManager.portfolio_config (in memory)
    current_holdings,   \* PortfolioManager.current_holdings
    config_file,        \* the persisted portfolio configuration
    p_last,             \* the last PortfolioManager call: [op, arg, raised]
    cache_files,        \* DataCache: the file kept under each cache key
    clock,              \* the wall clock, in hours
    c_last,             \* the last DataCache call: [op, key, found, hit, data]
    is_available,       \* DataSourceInterface.is_available of each source
    last_error,         \* whether DataSourceInterface.last_error is set
    l_req,              \* the (start_date, end_date) the dashboard asks for
    l_pc,               \* get_etf_data: "off" | "idle" | "fetch"
    l_src,              \* get_etf_data: the source being tried (0: none)
    l_attempt,          \* get_etf_data: attempts already made on l_src
    l_exhausted,        \* sources that used up max_retries in this call
    l_served,           \* who answered the last call: 0 nobody, a source, or FromCache
    l_result,           \* what the last get_etf_data call returned
    l_at,               \* the clock when it returned
    l_cleared,          \* the cache was cleared since it returned
    l_list,             \* what the last get_etf_list call returned
    l_last,             \* the last loader step: [op, revived, found, slept, ...]
    k_file,             \* concurrent cache: the chunks of the one cache file
    k_pc,               \* concurrent cache: where each thread is in its call
    k_data,             \* concurrent cache: the payload each thread is saving
    k_off,              \* concurrent cache: each writer's file offset
    k_done,             \* concurrent cache: payloads in order of completed save
    k_seen              \* concurrent cache: what each thread's last load read

validatorVars == <<v_raw, v_out, v_pc>>
drawdownVars == <<d_out>>
rsiVars == <<r_prices, r_period, r_out, r_pc>>
signalVars == <<s_tech, s_signal, s_pc>>
trendVars == <<t_periods, t_ma, t_trend, t_pc>>
portfolioVars == <<portfolio_config, current_holdings, config_file, p_last>>

cacheVars == <<cache_files, clock, c_last>>
loaderVars == <<is_available, last_error, l_req, l_pc, l_src, l_attempt, l_exhausted,
                l_served, l_result, l_at, l_cleared, l_list, l_last>>
concVars == <<k_file, k_pc, k_data, k_off, k_done, k_seen>>

vars == <<validatorVars, drawdownVars, rsiVars, signalVars, trendVars, portfolioVars,
          cacheVars, loaderVars, concVars>>

\* Each component runs on its own: a step of one leaves the others alone.
\* The loader owns a DataCache, so its steps may change the cache's files.
OthersIdleForValidator ==
    UNCHANGED <<trendVars, drawdownVars, rsiVars, signalVars, portfolioVars, cacheVars, loaderVars, concVars>>
OthersIdleForRsi ==
    UNCHANGED <<trendVars, validatorVars, drawdownVars, signalVars, portfolioVars, cacheVars, loaderVars, concVars>>
OthersIdleForSignal ==
    UNCHANGED <<trendVars, validatorVars, drawdownVars, rsiVars, portfolioVars, cacheVars, loaderVars, concVars>>
OthersIdleForPortfolio ==
    UNCHANGED <<trendVars, validatorVars, drawdownVars, rsiVars, signalVars, cacheVars, loaderVars, concVars>>
OthersIdleForCache ==
    UNCHANGED <<trendVars, validatorVars, drawdownVars, rsiVars, signalVars, portfolioVars, loaderVars, concVars>>
OthersIdleForLoader ==
    UNCHANGED <<trendVars, validatorVars, drawdownVars, rsiVars, signalVars, portfolioVars, c_last, concVars>>
OthersIdleForConc ==
    UNCHANGED <<trendVars, validatorVars, drawdownVars, rsiVars, signalVars, portfolioVars, cacheVars, loaderVars>>
OthersIdleForTrend ==
    UNCHANGED <<validatorVars, drawdownVars, rsiVars, signalVars, portfolioVars, cacheVars,
                loaderVars, concVars>>
OthersIdleForDrawdown ==
    UNCHANGED <<trendVars, rsiVars, signalVars, portfolioVars, cacheVars, loaderVars, concVars>>

(***************************************************************************)
(* Optional values: Python's None against a returned table.                *)
(***************************************************************************)
None == [ok |-> FALSE, rows |-> <<>>]
Some(rows) == [ok |-> TRUE, rows |-> rows]

(***************************************************************************)
(* DataValidator.  A raw table is [columns, rows]; a raw cell is <<n>> for *)
(* a value that parses to the number n and <<>> for one that is missing or *)
(* does not parse (pandas' NaN / NaT after errors='coerce').               *)
(***************************************************************************)
NaN == <<>>
IsNa(cell) == cell = NaN

required_columns == {"date", "open", "high", "low", "close", "volume"}

\* The akshare header; "cn_x" stands for the Chinese name that maps to x.
column_mapping(col) ==
    CASE col = "cn_date"   -> "date"
      [] col = "cn_open"   -> "open"
      [] col = "cn_close"  -> "close"
      [] col = "cn_high"   -> "high"
      [] col = "cn_low"    -> "low"
      [] col = "cn_volume" -> "volume"
      [] col = "cn_amount" -> "amount"
      [] OTHER             -> col

_standardize_columns(data) ==
    [data EXCEPT !.columns = {column_mapping(c) : c \in data.columns}]

_validate_required_columns(data) == required_columns \subseteq data.columns

\* to_datetime / to_numeric with errors='coerce' keep what parses and turn
\* the rest into NaN; volume then has its NaN filled with 0.
_convert_data_types(data) ==
    [data EXCEPT !.rows =
        [i \in 1..Len(data.rows) |->
            [data.rows[i] EXCEPT !.volume = IF IsNa(@) THEN <<0>> ELSE @]]]

\* Series.ffill() of one price column.
RECURSIVE FFillFrom(_, _, _)
FFillFrom(rows, col, last) ==
    IF rows = <<>> THEN <<>>
    ELSE LET r   == Head(rows)
             cur == IF IsNa(r[col]) THEN last ELSE r[col]
         IN  <<[r EXCEPT ![col] = cur]>> \o FFillFrom(Tail(rows), col, cur)

ffill(rows, col) == FFillFrom(rows, col, NaN)

HasNa(rows, col) == \E i \in 1..Len(rows) : IsNa(rows[i][col])

DateKnown(r) == ~IsNa(r.date)
CriticalKnown(r) ==
    /\ ~IsNa(r.date) /\ ~IsNa(r.open) /\ ~IsNa(r.high)
    /\ ~IsNa(r.low) /\ ~IsNa(r.close)

\* One pass of the loop over critical_columns, in the source's order.
HandleColumn(rows, col) ==
    IF ~HasNa(rows, col) THEN rows
    ELSE IF col = "date" THEN SelectSeq(rows, DateKnown)
         ELSE ffill(rows, col)

Unwrap(r) ==
    [date |-> r.date[1], open |-> r.open[1], high |-> r.high[1],
     low |-> r.low[1], close |-> r.close[1], volume |-> r.volume[1]]

\* The rows with every cell known, without the test for an empty result.
_handle_missing_values_keeps_empty(data) ==
    LET r1 == HandleColumn(data.rows, "date")
        r2 == HandleColumn(r1, "open")
        r3 == HandleColumn(r2, "high")
        r4 == HandleColumn(r3, "low")
        r5 == HandleColumn(r4, "close")
        kept == SelectSeq(r5, CriticalKnown)
    IN  Some([i \in 1..Len(kept) |-> Unwrap(kept[i])])

\* Returns None when nothing is left, else the rows with every cell known.
_handle_missing_values(data) ==
    LET r1 == HandleColumn(data.rows, "date")
        r2 == HandleColumn(r1, "open")
        r3 == HandleColumn(r2, "high")
        r4 == HandleColumn(r3, "low")
        r5 == HandleColumn(r4, "close")
        kept == SelectSeq(r5, CriticalKnown)
    IN  IF kept = <<>> THEN None
        ELSE Some([i \in 1..Len(kept) |-> Unwrap(kept[i])])

\* The row tests of _validate_data_integrity, first failure counts the row.
InvalidRow(row) ==
    \/ row.high < row.low
    \/ ~(row.low <= row.open /\ row.open <= row.high)
    \/ ~(row.low <= row.close /\ row.close <= row.high)
    \/ row.open <= 0 \/ row.high <= 0 \/ row.low <= 0 \/ row.close <= 0
    \/ row.volume < 0

\* error_rate = invalid / len(data) > 0.1 fails; otherwise the rows stay.
_validate_data_integrity(rows) ==
    LET invalid_price_rows == Len(SelectSeq(rows, InvalidRow))
    IN  ~(invalid_price_rows > 0 /\ invalid_price_rows * 10 > Len(rows))

\* set_index('date') followed by sort_index(): a stable insertion sort.
RECURSIVE InsertByDate(_, _)
InsertByDate(sorted, r) ==
    IF sorted = <<>> THEN <<r>>
    ELSE IF Head(sorted).date <= r.date
         THEN <<Head(sorted)>> \o InsertByDate(Tail(sorted), r)
         ELSE <<r>> \o sorted

RECURSIVE sort_index(_)
sort_index(rows) ==
    IF rows = <<>> THEN <<>>
    ELSE InsertByDate(sort_index(SubSeq(rows, 1, Len(rows) - 1)), rows[Len(rows)])

\* round(2) of a price in mills: to the nearest 10, ties to the even cent.
Round2(p) ==
    LET q == p \div 10
        r == p % 10
    IN  IF r < 5 THEN 10 * q
        ELSE IF r > 5 THEN 10 * (q + 1)
        ELSE IF q % 2 = 0 THEN 10 * q ELSE 10 * (q + 1)

format_price_precision(rows) ==
    [i \in 1..Len(rows) |->
        [rows[i] EXCEPT !.open = Round2(@), !.high = Round2(@),
                        !.low = Round2(@), !.close = Round2(@)]]

min_records == 30

\* Only logged by validate_price_data: its result does not change the return.
validate_data_completeness(rows) == rows /= <<>> /\ Len(rows) >= min_records

validate_price_data(data) ==
    IF data.rows = <<>> THEN None
    ELSE LET standardized_data == _standardize_columns(data)
         IN  IF ~_validate_required_columns(standardized_data) THEN None
             ELSE LET converted_data == _convert_data_types(standardized_data)
                      cleaned_data   == _handle_missing_values(converted_data)
                  IN  IF ~cleaned_data.ok THEN None
                      ELSE IF ~_validate_data_integrity(cleaned_data.rows) THEN None
                      ELSE Some(format_price_precision(sort_index(cleaned_data.rows)))

(***************************************************************************)
(* Raw tables for the validator run.  A table is built row by row; a row   *)
(* that is not the plain row counts against MaxOdd.                        *)
(***************************************************************************)
MaxRows == 10
MaxOdd == 2

StdColumns == required_columns
AkColumns == {"cn_date", "cn_open", "cn_high", "cn_low", "cn_close", "cn_volume", "cn_amount"}
Headers == {StdColumns, AkColumns, StdColumns \ {"volume"}}

\* The row at position n of a table, by kind.  Position n has date n unless
\* the kind says otherwise.
RowOfKind(kind, n) ==
    LET plain == [date |-> <<n>>, open |-> <<1000>>, high |-> <<1010>>,
                  low |-> <<990>>, close |-> <<1000>>, volume |-> <<5>>]
    IN  CASE kind = "plain"    -> plain
          [] kind = "high_lt_low" -> [plain EXCEPT !.high = <<980>>]
          [] kind = "close_out"   -> [plain EXCEPT !.close = <<1020>>]
          [] kind = "neg_volume"  -> [plain EXCEPT !.volume = <<0 - 1>>]
          [] kind = "neg_close"   -> [plain EXCEPT !.close = <<0 - 500>>]
          [] kind = "nat_date"    -> [plain EXCEPT !.date = NaN]
          [] kind = "nan_low"     -> [plain EXCEPT !.low = NaN, !.open = <<985>>, !.close = <<985>>]
          [] kind = "nan_volume"  -> [plain EXCEPT !.volume = NaN]
          [] kind = "rounding"    -> [plain EXCEPT !.open = <<1005>>, !.high = <<1015>>,
                                                   !.low = <<1004>>, !.close = <<1006>>]
          [] kind = "dup_date"    -> [plain EXCEPT !.date = <<IF n > 1 THEN n - 1 ELSE n>>]
          [] kind = "early_date"  -> [plain EXCEPT !.date = <<0>>]

OddKinds == {"high_lt_low", "close_out", "neg_volume", "neg_close", "nat_date", "nan_low",
             "nan_volume", "rounding", "dup_date", "early_date"}

OddCount(kinds) == Cardinality({i \in 1..Len(kinds) : kinds[i] /= "plain"})

ValidatorIdle ==
    /\ v_raw = [columns |-> {}, rows |-> <<>>, kinds |-> <<>>]
    /\ v_out = None
    /\ v_pc = "off"

ValidatorInit ==
    /\ v_raw \in {[columns |-> h, rows |-> <<>>, kinds |-> <<>>] : h \in Headers}
    /\ v_out = None
    /\ v_pc = "build"

AppendRow(kind) ==
    /\ v_pc = "build"
    /\ Len(v_raw.rows) < MaxRows
    /\ kind = "plain" \/ OddCount(v_raw.kinds) < MaxOdd
    /\ v_raw' = [v_raw EXCEPT !.rows = Append(@, RowOfKind(kind, Len(@) + 1)),
                              !.kinds = Append(@, kind)]
    /\ UNCHANGED <<v_out, v_pc>>
    /\ OthersIdleForValidator

Validate ==
    /\ v_pc = "build"
    /\ v_out' = validate_price_data(v_raw)
    /\ v_pc' = "done"
    /\ UNCHANGED v_raw
    /\ OthersIdleForValidator

ValidatorNext ==
    \/ \E kind \in {"plain"} \cup OddKinds : AppendRow(kind)
    \/ Validate

(***************************************************************************)
(* C7: every row of every series validate_price_data returns satisfies     *)
(* low <= open <= high, low <= close <= high and volume >= 0.              *)
(***************************************************************************)
RowOhlcvOk(row) ==
    /\ row.low <= row.open /\ row.open <= row.high
    /\ row.low <= row.close /\ row.close <= row.high
    /\ row.volume >= 0

C7_ReturnedRowsValid ==
    (v_pc = "done" /\ v_out.ok) =>
        \A i \in 1..Len(v_out.rows) : RowOhlcvOk(v_out.rows[i])

(***************************************************************************)
(* C14: a series that validate_price_data returns has at least min_records *)
(* rows; a cleaned result with fewer rows makes it return None.            *)
(***************************************************************************)
C14_ReturnedSeriesComplete ==
    (v_pc = "done" /\ v_out.ok) => Len(v_out.rows) >= min_records

(***************************************************************************)
(* C22: the dates of a series that validate_price_data returns increase    *)
(* strictly from row to row, so no date occurs twice.                      *)
(***************************************************************************)
C22_ReturnedDatesStrictlyIncrease ==
    (v_pc = "done" /\ v_out.ok) =>
        \A i \in 1..(Len(v_out.rows) - 1) : v_out.rows[i].date < v_out.rows[i + 1].date

(***************************************************************************)
(* Floating point values as the indicators use them: a finite value is the *)
(* exact rational n/d (d > 0); division by zero gives inf or NaN as IEEE   *)
(* arithmetic (and pandas) does.  The sign of zero is not modelled.        *)
(***************************************************************************)
Num(n, d) == [k |-> "num", n |-> n, d |-> d]
FNaN == [k |-> "nan", n |-> 0, d |-> 1]
FInf(sign) == [k |-> "inf", n |-> sign, d |-> 1]
Sign(n) == IF n > 0 THEN 1 ELSE IF n < 0 THEN 0 - 1 ELSE 0

IsNaN(a) == a.k = "nan"

FNeg(a) == [a EXCEPT !.n = 0 - @]

FAdd(a, b) ==
    IF IsNaN(a) \/ IsNaN(b) THEN FNaN
    ELSE IF a.k = "inf" /\ b.k = "inf" THEN (IF a.n = b.n THEN a ELSE FNaN)
    ELSE IF a.k = "inf" THEN a
    ELSE IF b.k = "inf" THEN b
    ELSE Num(a.n * b.d + b.n * a.d, a.d * b.d)

FSub(a, b) == FAdd(a, FNeg(b))

FMul(a, b) ==
    IF IsNaN(a) \/ IsNaN(b) THEN FNaN
    ELSE IF a.k = "inf" \/ b.k = "inf"
         THEN (IF Sign(a.n) * Sign(b.n) = 0 THEN FNaN ELSE FInf(Sign(a.n) * Sign(b.n)))
    ELSE Num(a.n * b.n, a.d * b.d)

FDiv(a, b) ==
    IF IsNaN(a) \/ IsNaN(b) THEN FNaN
    ELSE IF a.k = "inf" THEN (IF b.k = "inf" THEN FNaN
                              ELSE FInf(IF b.n < 0 THEN 0 - a.n ELSE a.n))
    ELSE IF b.k = "inf" THEN Num(0, 1)
    ELSE IF b.n = 0 THEN (IF a.n = 0 THEN FNaN ELSE FInf(Sign(a.n)))
    ELSE IF b.n > 0 THEN Num(a.n * b.d, a.d * b.n)
    ELSE Num(0 - a.n * b.d, 0 - a.d * b.n)

\* a < b and a <= b; any comparison with NaN is false.
FLt(a, b) ==
    IF IsNaN(a) \/ IsNaN(b) THEN FALSE
    ELSE IF a.k = "inf" THEN a.n < 0 /\ ~(b.k = "inf" /\ b.n < 0)
    ELSE IF b.k = "inf" THEN b.n > 0
    ELSE a.n * b.d < b.n * a.d

FEq(a, b) ==
    IF IsNaN(a) \/ IsNaN(b) THEN FALSE
    ELSE IF a.k = "inf" \/ b.k = "inf" THEN a.k = b.k /\ a.n = b.n
    ELSE a.n * b.d = b.n * a.d

FLe(a, b) == FLt(a, b) \/ FEq(a, b)

\* Python's min / max of two finite values.
FMin(a, b) == IF FLt(b, a) THEN b ELSE a
FMax(a, b) == IF FLt(a, b) THEN b ELSE a

Abs(x) == IF x < 0 THEN 0 - x ELSE x

\* The same value in lowest terms (keeps the integers of the model small).
RECURSIVE Gcd(_, _)
Gcd(a, b) == IF b = 0 THEN a ELSE Gcd(b, a % b)

Reduce(a) ==
    IF a.k /= "num" THEN a
    ELSE LET g == Gcd(Abs(a.n), a.d) IN Num(a.n \div g, a.d \div g)

(***************************************************************************)
(* TechnicalIndicators.calculate_rsi.  Series are 1-based here; index i of *)
(* the model is index i-1 of the pandas Series.                            *)
(***************************************************************************)
\* prices.diff(): NaN at the first index.
Delta(prices, i) == IF i = 1 THEN FNaN ELSE Num(prices[i] - prices[i - 1], 1)

\* delta.where(delta > 0, 0): NaN > 0 is false, so the first gain is 0.
Gain(prices, i) ==
    LET delta == Delta(prices, i)
    IN  IF FLt(Num(0, 1), delta) THEN delta ELSE Num(0, 1)

\* -delta.where(delta < 0, 0)
Loss(prices, i) ==
    LET delta == Delta(prices, i)
    IN  FNeg(IF FLt(delta, Num(0, 1)) THEN delta ELSE Num(0, 1))

RECURSIVE SumGain(_, _, _)
SumGain(prices, from, to) ==
    IF from > to THEN Num(0, 1)
    ELSE FAdd(Gain(prices, from), SumGain(prices, from + 1, to))

RECURSIVE SumLoss(_, _, _)
SumLoss(prices, from, to) ==
    IF from > to THEN Num(0, 1)
    ELSE FAdd(Loss(prices, from), SumLoss(prices, from + 1, to))

\* rolling(window=period, min_periods=period).mean() at index i.
avg_gain(prices, period, i) ==
    IF i < period THEN FNaN
    ELSE FDiv(SumGain(prices, i - period + 1, i), Num(period, 1))

avg_loss(prices, period, i) ==
    IF i < period THEN FNaN
    ELSE FDiv(SumLoss(prices, i - period + 1, i), Num(period, 1))

fillna(x, value) == IF IsNaN(x) THEN value ELSE x

\* rs = avg_gain / avg_loss; rsi = 100 - 100 / (1 + rs); rsi.fillna(50)
RsiAt(prices, period, i) ==
    LET rs  == FDiv(avg_gain(prices, period, i), avg_loss(prices, period, i))
        rsi == FSub(Num(100, 1), FDiv(Num(100, 1), FAdd(Num(1, 1), rs)))
    IN  fillna(rsi, Num(50, 1))

\* [raised, values]: a ValueError for an empty series or a period <= 0, a
\* series of NaN when there are fewer than period + 1 prices.
calculate_rsi(prices, period) ==
    IF prices = <<>> \/ period <= 0 THEN [raised |-> TRUE, values |-> <<>>]
    ELSE IF Len(prices) < period + 1
         THEN [raised |-> FALSE, values |-> [i \in 1..Len(prices) |-> FNaN]]
    ELSE [raised |-> FALSE,
          values |-> [i \in 1..Len(prices) |-> RsiAt(prices, period, i)]]

MaxPrices == 5
MaxPrice == 3
MaxPeriod == 3

RsiIdle ==
    /\ r_prices = <<>>
    /\ r_period = 0
    /\ r_out = [raised |-> FALSE, values |-> <<>>]
    /\ r_pc = "off"

RsiInit ==
    /\ r_prices = <<>>
    /\ r_period = 0
    /\ r_out = [raised |-> FALSE, values |-> <<>>]
    /\ r_pc = "build"

AppendPrice(p) ==
    /\ r_pc = "build"
    /\ Len(r_prices) < MaxPrices
    /\ r_prices' = Append(r_prices, p)
    /\ UNCHANGED <<r_period, r_out, r_pc>>
    /\ OthersIdleForRsi

CalculateRsi(period) ==
    /\ r_pc = "build"
    /\ r_period' = period
    /\ r_out' = calculate_rsi(r_prices, period)
    /\ r_pc' = "done"
    /\ UNCHANGED r_prices
    /\ OthersIdleForRsi

RsiNext ==
    \/ \E p \in 1..MaxPrice : AppendPrice(p)
    \/ \E period \in 0..MaxPeriod : CalculateRsi(period)

(***************************************************************************)
(* C10: every defined value calculate_rsi produces lies in [0, 100], and   *)
(* at every index whose trailing-window average loss is 0 the value is     *)
(* exactly 50, whatever the average gain.                                  *)
(***************************************************************************)
RsiInRange(v) == IsNaN(v) \/ (FLe(Num(0, 1), v) /\ FLe(v, Num(100, 1)))

C10_RsiRangeAndNeutral ==
    (r_pc = "done" /\ ~r_out.raised) =>
        \A i \in 1..Len(r_out.values) :
            /\ RsiInRange(r_out.values[i])
            /\ (Len(r_prices) >= r_period + 1
                /\ FEq(avg_loss(r_prices, r_period, i), Num(0, 1)))
                    => FEq(r_out.values[i], Num(50, 1))

(***************************************************************************)
(* TechnicalIndicators.calculate_max_drawdown on a series of prices:       *)
(* [raised, value].  peak is prices.expanding().max(), the drawdown at an  *)
(* index is (peak - price) / peak in floating point, and Series.max()      *)
(* skips NaN and is NaN when nothing else is left.                         *)
(***************************************************************************)
calculate_max_drawdown(prices) ==
    IF prices = <<>> THEN [raised |-> TRUE, value |-> FNaN]
    ELSE LET peak(i) == CHOOSE m \in {prices[j] : j \in 1..i} :
                            \A j \in 1..i : prices[j] <= m
             drawdown(i) == FDiv(Num(peak(i) - prices[i], 1), Num(peak(i), 1))
             known == {drawdown(i) : i \in 1..Len(prices)} \ {FNaN}
             max_drawdown == IF known = {} THEN FNaN
                             ELSE CHOOSE x \in known : \A y \in known : FLe(y, x)
         IN  [raised |-> FALSE,
              value |-> IF IsNaN(max_drawdown) THEN Num(0, 1) ELSE max_drawdown]

\* data['close'] of a validated series.
CloseColumn(rows) == [i \in 1..Len(rows) |-> rows[i].close]

NoDrawdown == [raised |-> FALSE, value |-> FNaN]

DrawdownIdle == d_out = NoDrawdown

\* calculate_all_indicators takes the close column of the validated series
\* and hands it to calculate_max_drawdown.
CalculateMaxDrawdown ==
    /\ v_pc = "done"
    /\ v_out.ok
    /\ d_out' = calculate_max_drawdown(CloseColumn(v_out.rows))
    /\ v_pc' = "measured"
    /\ UNCHANGED <<v_raw, v_out>>
    /\ OthersIdleForDrawdown

PipelineNext ==
    \/ ValidatorNext
    \/ CalculateMaxDrawdown

(***************************************************************************)
(* C11: the maximum drawdown of the close column of a validated series is  *)
(* a value in [0, 1], and it is 0 when the closes never fall.              *)
(***************************************************************************)
NeverFalls(prices) == \A i \in 1..(Len(prices) - 1) : prices[i] <= prices[i + 1]

C11_DrawdownInUnitRange ==
    v_pc = "measured" =>
        /\ ~d_out.raised
        /\ FLe(Num(0, 1), d_out.value)
        /\ FLe(d_out.value, Num(1, 1))
        /\ NeverFalls(CloseColumn(v_out.rows)) => FEq(d_out.value, Num(0, 1))

(***************************************************************************)
(* SignalManager.  A TechnicalData record holds the latest value of each   *)
(* moving average (a cell: <<>> is NaN), the latest RSI (a float), the     *)
(* maximum drawdown in thousandths and the trend status.  "rising",        *)
(* "falling" and "ranging" stand for the source's three status strings.    *)
(***************************************************************************)
rsi_overbought_threshold == 70
rsi_oversold_threshold == 30
rsi_neutral_threshold == 50
max_drawdown_threshold == 200

\* TechnicalIndicators.get_trend_status on the latest MA5 / MA20 / MA30.
get_trend_status(ma5, ma20, ma30) ==
    IF IsNa(ma5) \/ IsNa(ma20) \/ IsNa(ma30) THEN "ranging"
    ELSE IF ma5[1] > ma20[1] /\ ma20[1] > ma30[1] THEN "rising"
    ELSE IF ma5[1] < ma20[1] /\ ma20[1] < ma30[1] THEN "falling"
    ELSE "ranging"

_check_ma_alignment(td) ==
    IF IsNa(td.ma5) \/ IsNa(td.ma20) \/ IsNa(td.ma60) THEN FALSE
    ELSE \/ (td.ma5[1] > td.ma20[1] /\ td.ma20[1] > td.ma60[1])
         \/ (td.ma5[1] < td.ma20[1] /\ td.ma20[1] < td.ma60[1])

\* A plausible slip: the strength is not clamped to [0, 1].
_calculate_trend_strength_unclamped(td) ==
    IF IsNa(td.ma5) \/ IsNa(td.ma20) \/ IsNa(td.ma60) THEN Num(0, 1)
    ELSE LET ma5  == td.ma5[1]
             ma20 == td.ma20[1]
             ma30 == td.ma60[1]
             zero == Num(0, 1)
             strength ==
                IF td.trend_status = "rising"
                THEN FDiv(FAdd(IF ma20 > 0 THEN Num(ma5 - ma20, ma20) ELSE zero,
                               IF ma30 > 0 THEN Num(ma20 - ma30, ma30) ELSE zero),
                          Num(2, 1))
                ELSE IF td.trend_status = "falling"
                THEN FDiv(FAdd(IF ma5 > 0 THEN Num(ma20 - ma5, ma5) ELSE zero,
                               IF ma20 > 0 THEN Num(ma30 - ma20, ma20) ELSE zero),
                          Num(2, 1))
                ELSE zero
         IN  FMul(strength, Num(10, 1))

_calculate_trend_strength(td) ==
    IF IsNa(td.ma5) \/ IsNa(td.ma20) \/ IsNa(td.ma60) THEN Num(0, 1)
    ELSE LET ma5  == td.ma5[1]
             ma20 == td.ma20[1]
             ma30 == td.ma60[1]
             zero == Num(0, 1)
             strength ==
                IF td.trend_status = "rising"
                THEN FDiv(FAdd(IF ma20 > 0 THEN Num(ma5 - ma20, ma20) ELSE zero,
                               IF ma30 > 0 THEN Num(ma20 - ma30, ma30) ELSE zero),
                          Num(2, 1))
                ELSE IF td.trend_status = "falling"
                THEN FDiv(FAdd(IF ma5 > 0 THEN Num(ma20 - ma5, ma5) ELSE zero,
                               IF ma20 > 0 THEN Num(ma30 - ma20, ma20) ELSE zero),
                          Num(2, 1))
                ELSE zero
         IN  FMin(Num(1, 1), FMax(zero, FMul(strength, Num(10, 1))))

\* TrendCondition's own checks cannot fail on these values: the status is
\* one of the three and the strength is clamped to [0, 1].
evaluate_trend_condition(td) ==
    [status |-> td.trend_status,
     ma_alignment |-> _check_ma_alignment(td),
     strength |-> _calculate_trend_strength(td)]

evaluate_rsi_condition(td) ==
    LET latest_rsi == IF IsNaN(td.rsi) THEN Num(50, 1) ELSE td.rsi
        fallback == [value |-> Num(50, 1), status |-> "normal",
                     is_overbought |-> FALSE, is_oversold |-> FALSE]
    IN  IF ~(FLe(Num(0, 1), latest_rsi) /\ FLe(latest_rsi, Num(100, 1)))
        THEN fallback   \* RSICondition raises, the except branch answers
        ELSE IF FLt(Num(rsi_overbought_threshold, 1), latest_rsi)
        THEN [value |-> latest_rsi, status |-> "overbought",
              is_overbought |-> TRUE, is_oversold |-> FALSE]
        ELSE IF FLt(latest_rsi, Num(rsi_oversold_threshold, 1))
        THEN [value |-> latest_rsi, status |-> "oversold",
              is_overbought |-> FALSE, is_oversold |-> TRUE]
        ELSE [value |-> latest_rsi, status |-> "normal",
              is_overbought |-> FALSE, is_oversold |-> FALSE]

evaluate_drawdown_condition(td) ==
    [value |-> td.max_drawdown,
     is_excessive |-> td.max_drawdown > max_drawdown_threshold,
     threshold |-> max_drawdown_threshold]

\* A plausible slip: a ranging trend is let through at the neutral RSI itself.
TrendRsiRules_neutral_allowed(trend_condition, rsi_condition, reasons) ==
    LET one == Num(1, 1)
        r == CASE trend_condition.status = "rising" ->
                    IF FLt(rsi_condition.value, Num(rsi_overbought_threshold, 1))
                    THEN [a |-> TRUE, c |-> FMul(one, Num(9, 10)), why |-> "rising_rsi_ok"]
                    ELSE [a |-> FALSE, c |-> Num(2, 10), why |-> "rising_overbought"]
               [] trend_condition.status = "ranging" ->
                    IF FLe(rsi_condition.value, Num(rsi_neutral_threshold, 1))
                    THEN [a |-> TRUE, c |-> FMul(one, Num(7, 10)), why |-> "ranging_rsi_ok"]
                    ELSE [a |-> FALSE, c |-> Num(3, 10), why |-> "ranging_rsi_high"]
               [] trend_condition.status = "falling" ->
                    [a |-> FALSE, c |-> Num(1, 10), why |-> "falling"]
        scaled == IF r.a
                  THEN FMul(r.c, FAdd(Num(1, 2), FMul(Num(1, 2), trend_condition.strength)))
                  ELSE r.c
    IN  [is_allowed |-> r.a,
         confidence |-> FMax(Num(0, 1), FMin(Num(1, 1), scaled)),
         reasons |-> Append(reasons, r.why)]

\* Rule 2 and the confidence adjustment of _evaluate_buy_conditions, with
\* the reason of rule 1 already in reasons.
\* A plausible slip: an allowed signal is scaled by the strength alone.
TrendRsiRules_scaled_by_strength(trend_condition, rsi_condition, reasons) ==
    LET one == Num(1, 1)
        r == CASE trend_condition.status = "rising" ->
                    IF FLt(rsi_condition.value, Num(rsi_overbought_threshold, 1))
                    THEN [a |-> TRUE, c |-> FMul(one, Num(9, 10)), why |-> "rising_rsi_ok"]
                    ELSE [a |-> FALSE, c |-> Num(2, 10), why |-> "rising_overbought"]
               [] trend_condition.status = "ranging" ->
                    IF FLt(rsi_condition.value, Num(rsi_neutral_threshold, 1))
                    THEN [a |-> TRUE, c |-> FMul(one, Num(7, 10)), why |-> "ranging_rsi_ok"]
                    ELSE [a |-> FALSE, c |-> Num(3, 10), why |-> "ranging_rsi_high"]
               [] trend_condition.status = "falling" ->
                    [a |-> FALSE, c |-> Num(1, 10), why |-> "falling"]
        scaled == IF r.a THEN FMul(r.c, trend_condition.strength) ELSE r.c
    IN  [is_allowed |-> r.a,
         confidence |-> FMax(Num(0, 1), FMin(Num(1, 1), scaled)),
         reasons |-> Append(reasons, r.why)]

TrendRsiRules(trend_condition, rsi_condition, reasons) ==
    LET one == Num(1, 1)
        r == CASE trend_condition.status = "rising" ->
                    IF FLt(rsi_condition.value, Num(rsi_overbought_threshold, 1))
                    THEN [a |-> TRUE, c |-> FMul(one, Num(9, 10)), why |-> "rising_rsi_ok"]
                    ELSE [a |-> FALSE, c |-> Num(2, 10), why |-> "rising_overbought"]
               [] trend_condition.status = "ranging" ->
                    IF FLt(rsi_condition.value, Num(rsi_neutral_threshold, 1))
                    THEN [a |-> TRUE, c |-> FMul(one, Num(7, 10)), why |-> "ranging_rsi_ok"]
                    ELSE [a |-> FALSE, c |-> Num(3, 10), why |-> "ranging_rsi_high"]
               [] trend_condition.status = "falling" ->
                    [a |-> FALSE, c |-> Num(1, 10), why |-> "falling"]
        scaled == IF r.a
                  THEN FMul(r.c, FAdd(Num(1, 2), FMul(Num(1, 2), trend_condition.strength)))
                  ELSE r.c
    IN  [is_allowed |-> r.a,
         confidence |-> FMax(Num(0, 1), FMin(Num(1, 1), scaled)),
         reasons |-> Append(reasons, r.why)]

\* A plausible slip: rule 1 records its reason but does not return.
_evaluate_buy_conditions_falls_through(trend_condition, rsi_condition, drawdown_condition) ==
    TrendRsiRules(trend_condition, rsi_condition,
                  IF drawdown_condition.is_excessive
                  THEN <<"drawdown_exceeded">> ELSE <<"drawdown_ok">>)

_evaluate_buy_conditions(trend_condition, rsi_condition, drawdown_condition) ==
    IF drawdown_condition.is_excessive
    THEN [is_allowed |-> FALSE, confidence |-> Num(0, 1),
          reasons |-> <<"drawdown_exceeded">>]
    ELSE TrendRsiRules(trend_condition, rsi_condition, <<"drawdown_ok">>)

NoSignal == [made |-> FALSE, is_allowed |-> FALSE, confidence |-> Num(0, 1), reasons |-> <<>>]

\* generate_buy_signal from the technical data on: the three conditions,
\* the decision, and BuySignal's own checks (None when they raise).
generate_buy_signal(td) ==
    LET e == _evaluate_buy_conditions(evaluate_trend_condition(td),
                                      evaluate_rsi_condition(td),
                                      evaluate_drawdown_condition(td))
    IN  IF ~(FLe(Num(0, 1), e.confidence) /\ FLe(e.confidence, Num(1, 1))) \/ e.reasons = <<>>
        THEN NoSignal
        ELSE [made |-> TRUE, is_allowed |-> e.is_allowed,
              confidence |-> e.confidence, reasons |-> e.reasons]

MaBase == 100
MaxMaStep == 2

MaValues == {NaN} \cup {<<MaBase + k>> : k \in 0..MaxMaStep} \cup {<<2 * MaBase>>}

RsiValues ==
    {FNaN, Num(0, 1), Num(100, 1)}
    \cup {Num(t + k, 1) : t \in {rsi_oversold_threshold, rsi_neutral_threshold,
                                  rsi_overbought_threshold},
                          k \in {0 - 1, 0, 1}}

DrawdownValues ==
    {0, max_drawdown_threshold - 1, max_drawdown_threshold,
     max_drawdown_threshold + 1, max_drawdown_threshold + 50, 5 * max_drawdown_threshold}

\* The TechnicalData calculate_all_indicators can build: the trend status
\* is the one get_trend_status gives for the moving averages.
TechnicalDataSet ==
    {[ma5 |-> a, ma20 |-> b, ma60 |-> c, rsi |-> r, max_drawdown |-> dd,
      trend_status |-> get_trend_status(a, b, c)] :
        a \in MaValues, b \in MaValues, c \in MaValues,
        r \in RsiValues, dd \in DrawdownValues}

NoTech == [ma5 |-> NaN, ma20 |-> NaN, ma60 |-> NaN, rsi |-> FNaN,
           max_drawdown |-> 0, trend_status |-> "ranging"]

SignalIdle ==
    /\ s_tech = NoTech
    /\ s_signal = NoSignal
    /\ s_pc = "off"

SignalInit ==
    /\ s_tech \in TechnicalDataSet
    /\ s_signal = NoSignal
    /\ s_pc = "ready"

GenerateBuySignal ==
    /\ s_pc = "ready"
    /\ s_signal' = generate_buy_signal(s_tech)
    /\ s_pc' = "done"
    /\ UNCHANGED s_tech
    /\ OthersIdleForSignal

SignalNext == GenerateBuySignal

(***************************************************************************)
(* C8: the drawdown gate dominates.  Whatever the trend and the RSI, a     *)
(* maximum drawdown above max_drawdown_threshold gives a signal that is    *)
(* not allowed, has confidence 0 and carries exactly one reason, the       *)
(* breach: no trend / RSI rule has added a reason.                         *)
(***************************************************************************)
C8_DrawdownGateDominates ==
    (s_pc = "done" /\ s_tech.max_drawdown > max_drawdown_threshold) =>
        /\ s_signal.made
        /\ ~s_signal.is_allowed
        /\ FEq(s_signal.confidence, Num(0, 1))
        /\ s_signal.reasons = <<"drawdown_exceeded">>

\* A breach on a rising trend with a low RSI: the case the trend / RSI gate
\* alone would allow.
C8_Witness ==
    /\ s_pc = "done"
    /\ s_tech.max_drawdown > max_drawdown_threshold
    /\ s_tech.trend_status = "rising"
    /\ FLt(s_tech.rsi, Num(rsi_overbought_threshold, 1))
    /\ s_signal.made /\ ~s_signal.is_allowed

C26_ConfidenceFormula ==
    s_signal.made =>
        LET strength == evaluate_trend_condition(s_tech).strength
            base == IF s_tech.trend_status = "rising" THEN Num(9, 10) ELSE Num(7, 10)
        IN  /\ FLe(Num(0, 1), s_signal.confidence) /\ FLe(s_signal.confidence, Num(1, 1))
            /\ s_signal.is_allowed =>
                   /\ s_tech.trend_status \in {"rising", "ranging"}
                   /\ FLe(Num(0, 1), strength) /\ FLe(strength, Num(1, 1))
                   \* equal floats: the same value in lowest terms
                   /\ Reduce(s_signal.confidence) =
                          Reduce(FMul(base, Reduce(FAdd(Num(1, 2),
                                                        Reduce(FMul(Num(1, 2), Reduce(strength)))))))

\* An allowed signal in a rising trend whose strength is not at an end of [0, 1].
C26_Witness ==
    /\ s_signal.made
    /\ s_signal.is_allowed
    /\ s_tech.trend_status = "rising"
    /\ FLt(Num(0, 1), evaluate_trend_condition(s_tech).strength)
    /\ FLt(evaluate_trend_condition(s_tech).strength, Num(1, 1))

\* An allowed signal in a rising trend strong enough to be clamped to 1.
C26_WitnessClamped ==
    /\ s_signal.made
    /\ s_signal.is_allowed
    /\ s_tech.trend_status = "rising"
    /\ FEq(evaluate_trend_condition(s_tech).strength, Num(1, 1))
    /\ FEq(s_signal.confidence, Num(9, 10))

(***************************************************************************)
(* C29: confidence separates the decisions.  An allowed signal has         *)
(* confidence at least 0.35 and a denied signal at most 0.3, whatever the  *)
(* drawdown, the trend, the RSI and the strength of the trend.             *)
(***************************************************************************)
C29_ConfidenceSeparatesDecisions ==
    s_signal.made =>
        IF s_signal.is_allowed
        THEN FLe(Num(35, 100), s_signal.confidence)
        ELSE FLe(s_signal.confidence, Num(3, 10))

\* The least confident allowed signal: a ranging trend below the neutral RSI.
C29_Witness ==
    /\ s_signal.made
    /\ s_signal.is_allowed
    /\ FEq(s_signal.confidence, Num(35, 100))

\* The most confident denied signal.
C29_WitnessDenied ==
    /\ s_signal.made
    /\ ~s_signal.is_allowed
    /\ FEq(s_signal.confidence, Num(3, 10))

(***************************************************************************)
(* SystemIntegrator.calculate_technical_indicators.  The moving averages   *)
(* of the configured periods are computed into ma_data, one column         *)
(* MA<period> per period, and get_trend_status reads the latest row.  The  *)
(* latest row is a function from the period of each column to a cell; the  *)
(* rolling means themselves are inputs.                                    *)
(***************************************************************************)
\* IndicatorConfig.__post_init__
default_ma_periods == <<5, 20, 60>>

\* The lists the settings page can hold: the default, the one whose columns
\* get_trend_status asks for, and a longer one.
PeriodLists == {default_ma_periods, <<5, 20, 30>>, <<5, 10, 20, 30>>}

PeriodsOf(periods) == {periods[i] : i \in DOMAIN periods}

\* calculate_moving_averages: result[f'MA{period}'] for each period.
MaRows(periods) == [PeriodsOf(periods) -> MaValues]

required_mas == {5, 20, 30}

\* get_trend_status on the latest row of ma_data: a required column that
\* is absent or NaN gives the ranging status.
get_trend_status_of_row(latest_data) ==
    IF \E ma \in required_mas : ma \notin DOMAIN latest_data THEN "ranging"
    ELSE get_trend_status(latest_data[5], latest_data[20], latest_data[30])

NoRow == [p \in {} |-> NaN]

TrendIdle ==
    /\ t_periods = <<>>
    /\ t_ma = NoRow
    /\ t_trend = ""
    /\ t_pc = "off"

TrendInit ==
    /\ t_periods \in PeriodLists
    /\ t_ma = NoRow
    /\ t_trend = ""
    /\ t_pc = "ready"

CalculateTechnicalIndicators ==
    /\ t_pc = "ready"
    /\ \E ma_data \in MaRows(t_periods) :
        /\ t_ma' = ma_data
        /\ t_trend' = get_trend_status_of_row(ma_data)
    /\ t_pc' = "done"
    /\ UNCHANGED t_periods
    /\ OthersIdleForTrend

TrendNext == CalculateTechnicalIndicators

\* The k-th shortest of the configured periods.
Shortest(periods, k) ==
    CHOOSE p \in PeriodsOf(periods) :
        Cardinality({q \in PeriodsOf(periods) : q < p}) = k - 1

(***************************************************************************)
(* C23: whatever period list is configured, the trend returned by          *)
(* calculate_technical_indicators is rising exactly when the latest moving *)
(* averages of the three shortest periods are all defined and strictly     *)
(* decreasing from the shortest to the longest, falling exactly when they  *)
(* are all defined and strictly increasing, and ranging in every other     *)
(* case.                                                                   *)
(***************************************************************************)
C23_TrendFromThreeShortest ==
    t_pc = "done" =>
        LET short == t_ma[Shortest(t_periods, 1)]
            mid == t_ma[Shortest(t_periods, 2)]
            long == t_ma[Shortest(t_periods, 3)]
            defined == ~IsNa(short) /\ ~IsNa(mid) /\ ~IsNa(long)
        IN  /\ t_trend \in {"rising", "falling", "ranging"}
            /\ t_trend = "rising" <=> (defined /\ short[1] > mid[1] /\ mid[1] > long[1])
            /\ t_trend = "falling" <=> (defined /\ short[1] < mid[1] /\ mid[1] < long[1])

(***************************************************************************)
(* PortfolioManager.  Weights are integers in units of 0.0001, so 1.0 is   *)
(* WeightOne and the tolerance 0.001 is weight_tolerance.  A weight map is *)
(* a function from the symbols it holds.  The persisted configuration is   *)
(* [kind, config]: kind "absent" (no file), "corrupt" (a file json.load    *)
(* cannot read) or "record".                                               *)
(***************************************************************************)
WeightOne == 10000
weight_tolerance == 10
default_rebalance_threshold == 500

Symbols == {"A", "B"}
EmptyMap == [x \in {} |-> 0]

RECURSIVE SumOver(_, _)
SumOver(m, keys) ==
    IF keys = {} THEN 0
    ELSE LET k == CHOOSE x \in keys : TRUE
         IN  m[k] + SumOver(m, keys \ {k})

SumValues(m) == SumOver(m, DOMAIN m)

\* etf_weights is a dict: the weights by symbol, and keys, the order in
\* which the dict is iterated (the order in which its keys were inserted).
NoConfig == [present |-> FALSE, etf_weights |-> EmptyMap, keys |-> <<>>,
             rebalance_threshold |-> 0, created_at |-> 0]
Config(w, keys, threshold, at) == [present |-> TRUE, etf_weights |-> w, keys |-> keys,
                                   rebalance_threshold |-> threshold, created_at |-> at]

\* The orders in which a dict of these symbols can be iterated.
KeyOrders(dom) ==
    {order \in [1..Cardinality(dom) -> dom] :
        \A i, j \in 1..Cardinality(dom) : order[i] = order[j] => i = j}

\* dict[symbol] = value: a new key goes last, a key already there stays put.
SetKey(keys, symbol) ==
    IF \E i \in 1..Len(keys) : keys[i] = symbol THEN keys ELSE Append(keys, symbol)

\* del dict[symbol]
DelKey(keys, symbol) == LET Other(x) == x /= symbol IN SelectSeq(keys, Other)

\* pd.Timestamp.now() of this session, against the stamp 0 of earlier files.
NowStamp == 1

NoFile == [kind |-> "absent", config |-> NoConfig]
CorruptFile == [kind |-> "corrupt", config |-> NoConfig]
FileOf(config) == [kind |-> "record", config |-> config]

\* _save_config: nothing to write without a configuration; open(..., 'w')
\* may fail (the file stays), json.dump may fail after the file was
\* truncated; a failure is logged and raised again.  The runs below draw
\* the outcome from SaveOutcomes: a file system that works.
SaveOutcomes == {"ok"}

_save_config(config, file, outcome) ==
    IF ~config.present THEN file
    ELSE CASE outcome = "ok"         -> FileOf(config)
           [] outcome = "open_fails" -> file
           [] outcome = "dump_fails" -> CorruptFile

SaveRaises(config, outcome) == config.present /\ outcome /= "ok"

\* _load_config: the record is installed as it is (PortfolioConfig.__new__
\* skips __post_init__); an unreadable file leaves no configuration.
_load_config(file) == IF file.kind = "record" THEN file.config ELSE NoConfig

WeightSumOk(weights) == Abs(SumValues(weights) - WeightOne) <= weight_tolerance
WeightsInRange(weights) ==
    \A sym \in DOMAIN weights : 0 <= weights[sym] /\ weights[sym] <= WeightOne

\* A plausible slip: the configuration is replaced before the sum is checked.
update_target_weights_checks_late(weights, keys, outcome) ==
    LET newcfg == IF portfolio_config.present
                  THEN [portfolio_config EXCEPT !.etf_weights = weights, !.keys = keys]
                  ELSE Config(weights, keys, default_rebalance_threshold, NowStamp)
        rejected == ~WeightSumOk(weights) \/ ~WeightsInRange(weights)
    IN  /\ portfolio_config' = newcfg
        /\ config_file' = IF rejected THEN config_file
                          ELSE _save_config(newcfg, config_file, outcome)
        /\ p_last' = [op |-> "update_target_weights", arg |-> weights,
                      raised |-> rejected \/ SaveRaises(newcfg, outcome)]
        /\ UNCHANGED current_holdings

\* weights is the dict handed in and keys its iteration order, which
\* weights.copy() keeps.
update_target_weights(weights, keys, outcome) ==
    IF ~WeightSumOk(weights) \/ ~WeightsInRange(weights)
    THEN /\ p_last' = [op |-> "update_target_weights", arg |-> weights, raised |-> TRUE]
         /\ UNCHANGED <<portfolio_config, current_holdings, config_file>>
    ELSE LET newcfg == IF portfolio_config.present
                       THEN [portfolio_config EXCEPT !.etf_weights = weights, !.keys = keys]
                       ELSE Config(weights, keys, default_rebalance_threshold, NowStamp)
         IN  /\ portfolio_config' = newcfg
             /\ config_file' = _save_config(newcfg, config_file, outcome)
             /\ p_last' = [op |-> "update_target_weights", arg |-> weights,
                           raised |-> SaveRaises(newcfg, outcome)]
             /\ UNCHANGED current_holdings

add_etf_to_portfolio(symbol, target_weight, outcome) ==
    IF ~(0 <= target_weight /\ target_weight <= WeightOne)
    THEN /\ p_last' = [op |-> "add_etf_to_portfolio", arg |-> <<symbol, target_weight>>,
                       raised |-> TRUE]
         /\ UNCHANGED <<portfolio_config, current_holdings, config_file>>
    ELSE LET old == portfolio_config.etf_weights
             w == [x \in DOMAIN old \cup {symbol} |->
                      IF x = symbol THEN target_weight ELSE old[x]]
             keys == SetKey(portfolio_config.keys, symbol)
             newcfg == IF portfolio_config.present
                       THEN [portfolio_config EXCEPT !.etf_weights = w, !.keys = keys]
                       ELSE Config(w, keys, default_rebalance_threshold, NowStamp)
         IN  /\ portfolio_config' = newcfg
             /\ config_file' = _save_config(newcfg, config_file, outcome)
             /\ p_last' = [op |-> "add_etf_to_portfolio", arg |-> <<symbol, target_weight>>,
                           raised |-> SaveRaises(newcfg, outcome)]
             /\ UNCHANGED current_holdings

\* A plausible slip: the holding of the removed symbol is left behind.
remove_etf_from_portfolio_keeps_holding(symbol, outcome) ==
    IF ~portfolio_config.present \/ symbol \notin DOMAIN portfolio_config.etf_weights
    THEN /\ p_last' = [op |-> "remove_etf_from_portfolio", arg |-> symbol, raised |-> TRUE]
         /\ UNCHANGED <<portfolio_config, current_holdings, config_file>>
    ELSE LET old == portfolio_config.etf_weights
             newcfg == [portfolio_config EXCEPT
                           !.etf_weights = [x \in DOMAIN old \ {symbol} |-> old[x]],
                           !.keys = DelKey(portfolio_config.keys, symbol)]
         IN  /\ portfolio_config' = newcfg
             /\ UNCHANGED current_holdings
             /\ config_file' = _save_config(newcfg, config_file, outcome)
             /\ p_last' = [op |-> "remove_etf_from_portfolio", arg |-> symbol,
                           raised |-> SaveRaises(newcfg, outcome)]

remove_etf_from_portfolio(symbol, outcome) ==
    IF ~portfolio_config.present \/ symbol \notin DOMAIN portfolio_config.etf_weights
    THEN /\ p_last' = [op |-> "remove_etf_from_portfolio", arg |-> symbol, raised |-> TRUE]
         /\ UNCHANGED <<portfolio_config, current_holdings, config_file>>
    ELSE LET old == portfolio_config.etf_weights
             newcfg == [portfolio_config EXCEPT
                           !.etf_weights = [x \in DOMAIN old \ {symbol} |-> old[x]],
                           !.keys = DelKey(portfolio_config.keys, symbol)]
         IN  /\ portfolio_config' = newcfg
             /\ current_holdings' =
                    [x \in DOMAIN current_holdings \ {symbol} |-> current_holdings[x]]
             /\ config_file' = _save_config(newcfg, config_file, outcome)
             /\ p_last' = [op |-> "remove_etf_from_portfolio", arg |-> symbol,
                           raised |-> SaveRaises(newcfg, outcome)]

update_current_holdings(holdings) ==
    IF \E sym \in DOMAIN holdings : holdings[sym] < 0
    THEN /\ p_last' = [op |-> "update_current_holdings", arg |-> <<>>, raised |-> TRUE]
         /\ UNCHANGED <<portfolio_config, current_holdings, config_file>>
    ELSE /\ current_holdings' = holdings
         /\ p_last' = [op |-> "update_current_holdings", arg |-> <<>>, raised |-> FALSE]
         /\ UNCHANGED <<portfolio_config, config_file>>

MaxQty == 1

WeightValues == {0 - WeightOne \div 2, WeightOne \div 2 - weight_tolerance,
                 WeightOne \div 2, WeightOne \div 2 + weight_tolerance,
                 WeightOne + WeightOne \div 2}
WeightMaps == UNION {[dom -> WeightValues] : dom \in SUBSET Symbols}
HoldingMaps == UNION {[dom -> (0 - 1)..MaxQty] : dom \in SUBSET Symbols}

\* What an earlier session may have left on disk.
InitialFiles ==
    {NoFile, CorruptFile,
     FileOf(Config([x \in Symbols |-> WeightOne \div 2], <<"A", "B">>,
                   default_rebalance_threshold, 0)),
     FileOf(Config([x \in {"A"} |-> WeightOne \div 2], <<"A">>,
                   default_rebalance_threshold, 0))}

NoCall == [op |-> "__init__", arg |-> <<>>, raised |-> FALSE]

PortfolioIdle ==
    /\ portfolio_config = NoConfig
    /\ current_holdings = EmptyMap
    /\ config_file = NoFile
    /\ p_last = NoCall

\* PortfolioManager.__init__: no holdings, the configuration _load_config finds.
PortfolioInit ==
    /\ config_file \in InitialFiles
    /\ portfolio_config = _load_config(config_file)
    /\ current_holdings = EmptyMap
    /\ p_last = NoCall


UpdateTargetWeights ==
    \E weights \in WeightMaps, outcome \in SaveOutcomes :
        \E keys \in KeyOrders(DOMAIN weights) :
            update_target_weights(weights, keys, outcome) /\ OthersIdleForPortfolio

AddEtfToPortfolio ==
    \E symbol \in Symbols, w \in WeightValues, outcome \in SaveOutcomes :
        add_etf_to_portfolio(symbol, w, outcome) /\ OthersIdleForPortfolio

RemoveEtfFromPortfolio ==
    \E symbol \in Symbols, outcome \in SaveOutcomes :
        remove_etf_from_portfolio(symbol, outcome) /\ OthersIdleForPortfolio

UpdateCurrentHoldings ==
    \E holdings \in HoldingMaps :
        update_current_holdings(holdings) /\ OthersIdleForPortfolio

\* A new PortfolioManager on the same config_file (the next session).
NewPortfolioManager ==
    /\ portfolio_config' = _load_config(config_file)
    /\ current_holdings' = EmptyMap
    /\ p_last' = NoCall
    /\ UNCHANGED config_file
    /\ OthersIdleForPortfolio

(***************************************************************************)
(* Rebalancing.  Prices and quantities are integers, weights and amounts   *)
(* the floats the code computes from them.  A threshold argument is <<>>   *)
(* for None or <<t>> for t in units of 0.0001.                             *)
(***************************************************************************)
Get(m, key, default) == IF key \in DOMAIN m THEN m[key] ELSE default

FAbs(a) == IF FLt(a, Num(0, 1)) THEN FNeg(a) ELSE a

\* Holdings without a price are skipped (a warning is logged).
calculate_portfolio_value(current_prices) ==
    SumValues([sym \in DOMAIN current_holdings \cap DOMAIN current_prices |->
                  current_holdings[sym] * current_prices[sym]])

_calculate_current_weights(current_prices) ==
    LET total_value == calculate_portfolio_value(current_prices)
    IN  [sym \in DOMAIN portfolio_config.etf_weights |->
            IF total_value = 0 THEN Num(0, 1)
            ELSE Reduce(FDiv(Num(Get(current_holdings, sym, 0) * Get(current_prices, sym, 0), 1),
                             Num(total_value, 1)))]

calculate_portfolio_deviation(current_prices) ==
    LET current_weights == _calculate_current_weights(current_prices)
    IN  [sym \in DOMAIN portfolio_config.etf_weights |->
            Reduce(FAbs(FSub(current_weights[sym],
                             Reduce(Num(portfolio_config.etf_weights[sym], WeightOne)))))]

\* RebalanceAction.__post_init__ raises for a weight outside [0, 1].
RebalanceActionRaises(a) ==
    \/ ~(FLe(Num(0, 1), a.current_weight) /\ FLe(a.current_weight, Num(1, 1)))
    \/ ~(FLe(Num(0, 1), a.target_weight) /\ FLe(a.target_weight, Num(1, 1)))

\* A plausible slip: a sort that puts the later of two equal deviations first
\* (an ascending sort, then reversed).
RECURSIVE InsertByDeviation_ties_first(_, _)
InsertByDeviation_ties_first(sorted, a) ==
    IF sorted = <<>> THEN <<a>>
    ELSE IF FLe(Head(sorted).deviation, a.deviation) THEN <<a>> \o sorted
    ELSE <<Head(sorted)>> \o InsertByDeviation_ties_first(Tail(sorted), a)

RECURSIVE SortByDeviation_ties_reversed(_)
SortByDeviation_ties_reversed(list) ==
    IF list = <<>> THEN <<>>
    ELSE InsertByDeviation_ties_first(
             SortByDeviation_ties_reversed(SubSeq(list, 1, Len(list) - 1)), list[Len(list)])

\* suggestions.sort(key=deviation, reverse=True): stable, largest first.
RECURSIVE InsertByDeviation(_, _)
InsertByDeviation(sorted, a) ==
    IF sorted = <<>> THEN <<a>>
    ELSE IF FLt(Head(sorted).deviation, a.deviation) THEN <<a>> \o sorted
    ELSE <<Head(sorted)>> \o InsertByDeviation(Tail(sorted), a)

RECURSIVE SortByDeviation(_)
SortByDeviation(list) ==
    IF list = <<>> THEN <<>>
    ELSE InsertByDeviation(SortByDeviation(SubSeq(list, 1, Len(list) - 1)), list[Len(list)])

\* A plausible slip: a deviation equal to the threshold already rebalances.
get_rebalance_suggestions_at_threshold(current_prices, threshold) ==
    IF ~portfolio_config.present THEN <<>>
    ELSE
    LET thr == IF threshold = <<>>
               THEN Reduce(Num(portfolio_config.rebalance_threshold, WeightOne))
               ELSE Reduce(Num(threshold[1], WeightOne))
        current_weights == _calculate_current_weights(current_prices)
        deviations == calculate_portfolio_deviation(current_prices)
        total_value == Num(calculate_portfolio_value(current_prices), 1)
        symbols == portfolio_config.keys
        suggestion(sym) ==
            LET target_weight == Reduce(Num(portfolio_config.etf_weights[sym], WeightOne))
                current_weight == current_weights[sym]
                deviation == deviations[sym]
                rebalance == FLe(thr, deviation)
                sell == FLt(target_weight, current_weight)
            IN  [symbol |-> sym,
                 action |-> IF ~rebalance THEN "hold" ELSE IF sell THEN "sell" ELSE "buy",
                 current_weight |-> current_weight,
                 target_weight |-> target_weight,
                 deviation |-> deviation,
                 suggested_amount |->
                     IF ~rebalance THEN Num(0, 1)
                     ELSE IF sell
                     THEN Reduce(FMul(Reduce(FSub(current_weight, target_weight)), total_value))
                     ELSE Reduce(FMul(Reduce(FSub(target_weight, current_weight)), total_value))]
        suggestions == [i \in 1..Len(symbols) |-> suggestion(symbols[i])]
    IN  IF \E i \in 1..Len(suggestions) : RebalanceActionRaises(suggestions[i])
        THEN <<>>
        ELSE SortByDeviation(suggestions)

\* get_rebalance_suggestions: the list of RebalanceAction records, or [] when
\* anything raised (no configuration, a RebalanceAction that is refused).
get_rebalance_suggestions(current_prices, threshold) ==
    IF ~portfolio_config.present THEN <<>>
    ELSE
    LET thr == IF threshold = <<>>
               THEN Reduce(Num(portfolio_config.rebalance_threshold, WeightOne))
               ELSE Reduce(Num(threshold[1], WeightOne))
        current_weights == _calculate_current_weights(current_prices)
        deviations == calculate_portfolio_deviation(current_prices)
        total_value == Num(calculate_portfolio_value(current_prices), 1)
        symbols == portfolio_config.keys
        suggestion(sym) ==
            LET target_weight == Reduce(Num(portfolio_config.etf_weights[sym], WeightOne))
                current_weight == current_weights[sym]
                deviation == deviations[sym]
                rebalance == FLt(thr, deviation)
                sell == FLt(target_weight, current_weight)
            IN  [symbol |-> sym,
                 action |-> IF ~rebalance THEN "hold" ELSE IF sell THEN "sell" ELSE "buy",
                 current_weight |-> current_weight,
                 target_weight |-> target_weight,
                 deviation |-> deviation,
                 suggested_amount |->
                     IF ~rebalance THEN Num(0, 1)
                     ELSE IF sell
                     THEN Reduce(FMul(Reduce(FSub(current_weight, target_weight)), total_value))
                     ELSE Reduce(FMul(Reduce(FSub(target_weight, current_weight)), total_value))]
        suggestions == [i \in 1..Len(symbols) |-> suggestion(symbols[i])]
    IN  IF \E i \in 1..Len(suggestions) : RebalanceActionRaises(suggestions[i])
        THEN <<>>
        ELSE SortByDeviation(suggestions)

MaxQuote == 1
PriceMaps == UNION {[dom -> 1..MaxQuote] : dom \in SUBSET Symbols}
ThresholdArgs == {<<>>, <<0>>, <<WeightOne \div 2>>}

GetRebalanceSuggestions ==
    \E current_prices \in PriceMaps, threshold \in ThresholdArgs :
        /\ p_last' = [op |-> "get_rebalance_suggestions",
                      arg |-> <<current_prices, threshold>>,
                      raised |-> FALSE,
                      result |-> get_rebalance_suggestions(current_prices, threshold)]
        /\ UNCHANGED <<portfolio_config, current_holdings, config_file>>
        /\ OthersIdleForPortfolio

PortfolioNext ==
    \/ UpdateTargetWeights
    \/ AddEtfToPortfolio
    \/ RemoveEtfFromPortfolio
    \/ UpdateCurrentHoldings

\* The three mutations over a config file that cannot always be written:
\* open(config_file, 'w') may raise, and json.dump may raise after the file
\* was truncated.
FailingDisk == {"ok", "open_fails", "dump_fails"}

UpdateTargetWeightsOnDisk ==
    \E weights \in WeightMaps, outcome \in FailingDisk :
        \E keys \in KeyOrders(DOMAIN weights) :
            update_target_weights(weights, keys, outcome) /\ OthersIdleForPortfolio

AddEtfToPortfolioOnDisk ==
    \E symbol \in Symbols, w \in WeightValues, outcome \in FailingDisk :
        add_etf_to_portfolio(symbol, w, outcome) /\ OthersIdleForPortfolio

RemoveEtfFromPortfolioOnDisk ==
    \E symbol \in Symbols, outcome \in FailingDisk :
        remove_etf_from_portfolio(symbol, outcome) /\ OthersIdleForPortfolio

PersistNext ==
    \/ UpdateTargetWeightsOnDisk
    \/ AddEtfToPortfolioOnDisk
    \/ RemoveEtfFromPortfolioOnDisk

\* Sessions that build a portfolio ETF by ETF, record holdings and ask for
\* suggestions.
RebalanceNext ==
    \/ AddEtfToPortfolio
    \/ UpdateCurrentHoldings
    \/ GetRebalanceSuggestions
    \/ NewPortfolioManager

(***************************************************************************)
(* C9: update_target_weights raises for every map whose values sum outside *)
(* [0.999, 1.001], and such a call leaves the in-memory configuration and  *)
(* the persisted one exactly as they were.                                 *)
(***************************************************************************)
SumOutside(weights) ==
    SumValues(weights) < WeightOne - weight_tolerance
    \/ SumValues(weights) > WeightOne + weight_tolerance

C9_BadSumRejectedWhole ==
    [][(p_last'.op = "update_target_weights" /\ SumOutside(p_last'.arg)) =>
            /\ p_last'.raised
            /\ portfolio_config' = portfolio_config
            /\ config_file' = config_file]_vars

\* A rejected map on top of an existing, persisted configuration.
C9_Witness ==
    /\ p_last.op = "update_target_weights"
    /\ SumOutside(p_last.arg)
    /\ p_last.arg /= EmptyMap
    /\ p_last.raised
    /\ portfolio_config.present
    /\ config_file.kind = "record"

(***************************************************************************)
(* C21: after a call of add_etf_to_portfolio, remove_etf_from_portfolio    *)
(* or update_target_weights, returned or raised, the config file holds the *)
(* record of the configuration in memory.                                  *)
(***************************************************************************)
C21_PersistedEqualsMemory ==
    (/\ p_last.op \in {"add_etf_to_portfolio", "remove_etf_from_portfolio",
                       "update_target_weights"}
     /\ portfolio_config.present)
        => config_file = FileOf(portfolio_config)

(***************************************************************************)
(* C30: remove_etf_from_portfolio(symbol) on a configuration that holds    *)
(* the symbol takes that symbol out of the weights and the holdings and    *)
(* leaves every other weight and holding, the threshold and the creation   *)
(* time as they were; otherwise it raises and leaves weights, holdings and *)
(* the persisted record untouched.                                         *)
(***************************************************************************)
C30_RemoveTouchesOnlyItsSymbol ==
    [][p_last'.op = "remove_etf_from_portfolio" =>
          LET symbol == p_last'.arg
              old == portfolio_config.etf_weights
          IN  IF portfolio_config.present /\ symbol \in DOMAIN old
              THEN /\ portfolio_config'.present
                   /\ DOMAIN portfolio_config'.etf_weights = DOMAIN old \ {symbol}
                   /\ \A x \in DOMAIN old \ {symbol} :
                          portfolio_config'.etf_weights[x] = old[x]
                   /\ portfolio_config'.rebalance_threshold = portfolio_config.rebalance_threshold
                   /\ portfolio_config'.created_at = portfolio_config.created_at
                   /\ DOMAIN current_holdings' = DOMAIN current_holdings \ {symbol}
                   /\ \A x \in DOMAIN current_holdings \ {symbol} :
                          current_holdings'[x] = current_holdings[x]
              ELSE /\ p_last'.raised
                   /\ UNCHANGED <<portfolio_config, current_holdings, config_file>>]_vars

\* A held symbol was removed next to another configured and held symbol,
\* and the remaining weights no longer sum to 1.
C30_Witness ==
    /\ p_last.op = "remove_etf_from_portfolio"
    /\ ~p_last.raised
    /\ DOMAIN portfolio_config.etf_weights = Symbols \ {p_last.arg}
    /\ DOMAIN current_holdings = Symbols \ {p_last.arg}
    /\ ~WeightSumOk(portfolio_config.etf_weights)

(***************************************************************************)
(* C12: get_rebalance_suggestions returns one action per configured        *)
(* symbol.  With deviation = |currentWeight - targetWeight|, the action is *)
(* sell (current above target) or buy with amount deviation x portfolio    *)
(* value when deviation > threshold, and hold with amount 0 otherwise.     *)
(***************************************************************************)
C12_SuggestionsClassifyByDeviation ==
    (p_last.op = "get_rebalance_suggestions" /\ portfolio_config.present) =>
        LET prices == p_last.arg[1]
            result == p_last.result
            threshold == IF p_last.arg[2] = <<>> THEN portfolio_config.rebalance_threshold
                         ELSE p_last.arg[2][1]
            Worth(sym) == IF sym \in DOMAIN current_holdings /\ sym \in DOMAIN prices
                          THEN current_holdings[sym] * prices[sym] ELSE 0
            portfolioValue == SumValues([sym \in Symbols |-> Worth(sym)])
            targetWeight(sym) == Reduce(Num(portfolio_config.etf_weights[sym], WeightOne))
            currentWeight(sym) == IF portfolioValue = 0 THEN Num(0, 1)
                                  ELSE Reduce(Num(Worth(sym), portfolioValue))
            deviation(sym) ==
                IF FLt(currentWeight(sym), targetWeight(sym))
                THEN Reduce(FSub(targetWeight(sym), currentWeight(sym)))
                ELSE Reduce(FSub(currentWeight(sym), targetWeight(sym)))
            Classified(a) ==
                IF FLt(Reduce(Num(threshold, WeightOne)), deviation(a.symbol))
                THEN /\ a.action = IF FLt(targetWeight(a.symbol), currentWeight(a.symbol))
                                   THEN "sell" ELSE "buy"
                     /\ FEq(a.suggested_amount,
                            Reduce(FMul(deviation(a.symbol), Num(portfolioValue, 1))))
                ELSE /\ a.action = "hold"
                     /\ FEq(a.suggested_amount, Num(0, 1))
        IN  /\ Len(result) = Cardinality(DOMAIN portfolio_config.etf_weights)
            /\ \A sym \in DOMAIN portfolio_config.etf_weights :
                   \E i \in 1..Len(result) : result[i].symbol = sym
            /\ \A i \in 1..Len(result) : Classified(result[i])

\* One symbol above its target by more than the threshold, the other below.
C12_Witness ==
    /\ p_last.op = "get_rebalance_suggestions"
    /\ \E i, j \in 1..Len(p_last.result) :
           /\ p_last.result[i].action = "sell"
           /\ FLt(Num(0, 1), p_last.result[i].suggested_amount)
           /\ p_last.result[j].action = "buy"

(***************************************************************************)
(* C25: get_rebalance_suggestions returns exactly one action for each      *)
(* symbol of etf_weights; the deviations never increase along the list;    *)
(* and of two actions with the same deviation, the one whose symbol comes  *)
(* first when etf_weights is iterated comes first.                         *)
(***************************************************************************)
C25_LargestDeviationFirstTiesInDictOrder ==
    (p_last.op = "get_rebalance_suggestions" /\ portfolio_config.present) =>
        LET result == p_last.result
            keys == portfolio_config.keys
            Place(sym) == CHOOSE i \in 1..Len(keys) : keys[i] = sym
        IN  /\ \A sym \in DOMAIN portfolio_config.etf_weights :
                   Cardinality({i \in 1..Len(result) : result[i].symbol = sym}) = 1
            /\ \A i \in 1..Len(result) : result[i].symbol \in DOMAIN portfolio_config.etf_weights
            /\ \A i \in 1..(Len(result) - 1) :
                   FLe(result[i + 1].deviation, result[i].deviation)
            /\ \A i, j \in 1..Len(result) :
                   (i < j /\ FEq(result[i].deviation, result[j].deviation))
                       => Place(result[i].symbol) < Place(result[j].symbol)

\* Two symbols with the same deviation, in a dict that holds B before A.
C25_Witness ==
    /\ p_last.op = "get_rebalance_suggestions"
    /\ portfolio_config.keys = <<"B", "A">>
    /\ Len(p_last.result) = 2
    /\ FEq(p_last.result[1].deviation, p_last.result[2].deviation)
    /\ p_last.result[1].symbol = "B"

\* Two symbols with different deviations: the second of the dict comes first.
C25_WitnessReordered ==
    /\ p_last.op = "get_rebalance_suggestions"
    /\ Len(p_last.result) = 2
    /\ p_last.result[1].symbol = portfolio_config.keys[2]
    /\ FLt(p_last.result[2].deviation, p_last.result[1].deviation)

(***************************************************************************)
(* C13: a PortfolioManager that starts on a persisted configuration whose  *)
(* non-empty weights do not sum to 1.0 within 0.001, or hold a weight      *)
(* outside [0, 1], does not install those weights.                         *)
(***************************************************************************)
C13_LoadRejectsInvalidWeights ==
    (/\ p_last.op = "__init__"
     /\ config_file.kind = "record"
     /\ config_file.config.etf_weights /= EmptyMap
     /\ ~(WeightSumOk(config_file.config.etf_weights)
          /\ WeightsInRange(config_file.config.etf_weights)))
        => ~(/\ portfolio_config.present
             /\ portfolio_config.etf_weights = config_file.config.etf_weights)

(***************************************************************************)
(* DataCache.  One pickle file per cache key; a file holds the payload and *)
(* the time it was written.  A file that does not unpickle is "corrupt".   *)
(***************************************************************************)
cache_expiry_hours == 24

CacheKeys == {"etf_data", "etf_list"}

NoEntry == [kind |-> "absent"]
CorruptEntry == [kind |-> "corrupt"]
CacheEntry(data, timestamp) == [kind |-> "entry", data |-> data, timestamp |-> timestamp]

\* datetime.now() > timestamp + timedelta(hours=cache_expiry_hours)
_is_cache_expired(timestamp, now) == now > timestamp + cache_expiry_hours

\* os.remove when the file exists.
_remove_cache_file(files, key) == [files EXCEPT ![key] = NoEntry]

\* A plausible slip: a file that cannot be read is left alone.
save_keeps_unreadable(files, key, data, now) ==
    IF files[key].kind = "corrupt" THEN files
    ELSE [files EXCEPT ![key] = CacheEntry(data, now)]

save(files, key, data, now) == [files EXCEPT ![key] = CacheEntry(data, now)]

Miss(files) == [hit |-> FALSE, data |-> <<>>, files |-> files]

\* An expired file is not removed: the miss is reported, the file stays.
load_keeps_stale(files, key, now) ==
    IF files[key].kind = "entry" /\ ~_is_cache_expired(files[key].timestamp, now)
    THEN [hit |-> TRUE, data |-> files[key].data, files |-> files]
    ELSE Miss(files)

\* load: the payload, or a miss when the file is missing, expired (then it
\* is removed) or unreadable (the except branch; the file stays).
load(files, key, now) ==
    IF files[key].kind = "absent" THEN Miss(files)
    ELSE IF files[key].kind = "corrupt" THEN Miss(files)
    ELSE IF _is_cache_expired(files[key].timestamp, now)
    THEN Miss(_remove_cache_file(files, key))
    ELSE [hit |-> TRUE, data |-> files[key].data, files |-> files]

\* A plausible slip: clearing everything passes over unreadable files.
clear_cache_skips_unreadable(files, symbol) ==
    IF symbol /= "" THEN _remove_cache_file(files, symbol)
    ELSE [k \in DOMAIN files |-> IF files[k].kind = "corrupt" THEN files[k] ELSE NoEntry]

\* clear_cache(symbol): that key's file, or with no symbol every file.
clear_cache(files, symbol) ==
    IF symbol /= "" THEN _remove_cache_file(files, symbol)
    ELSE [k \in DOMAIN files |-> NoEntry]

(***************************************************************************)
(* A run of the cache alone: saves, loads and clears on two keys while the *)
(* clock advances in steps of TickHours up to MaxClock.                    *)
(***************************************************************************)
TickHours == 24
MaxClock == 48

Payloads == {"p1", "p2"}

\* What load finds under the key before it acts.
Found(files, key, now) ==
    IF files[key].kind /= "entry" THEN files[key].kind
    ELSE IF _is_cache_expired(files[key].timestamp, now) THEN "stale" ELSE "fresh"

NoCacheCall == [op |-> "__init__", key |-> "", found |-> "", hit |-> FALSE, data |-> <<>>]

CacheIdle ==
    /\ cache_files = [k \in CacheKeys |-> NoEntry]
    /\ clock = 0
    /\ c_last = NoCacheCall

\* DataCache.__init__ on a directory that may hold files of an earlier run.
CacheInit ==
    /\ cache_files \in [CacheKeys -> {NoEntry, CorruptEntry}]
    /\ clock = 0
    /\ c_last = NoCacheCall

Save(key, data) ==
    /\ cache_files' = save(cache_files, key, data, clock)
    /\ c_last' = [op |-> "save", key |-> key, found |-> "", hit |-> FALSE, data |-> data]
    /\ UNCHANGED clock
    /\ OthersIdleForCache

Load(key) ==
    /\ cache_files' = load(cache_files, key, clock).files
    /\ c_last' = [op |-> "load", key |-> key, found |-> Found(cache_files, key, clock),
                  hit |-> load(cache_files, key, clock).hit,
                  data |-> load(cache_files, key, clock).data]
    /\ UNCHANGED clock
    /\ OthersIdleForCache

ClearCache(symbol) ==
    /\ cache_files' = clear_cache(cache_files, symbol)
    /\ c_last' = [op |-> "clear_cache", key |-> symbol,
                  found |-> IF \A k \in CacheKeys : cache_files[k] = NoEntry
                            THEN "nothing" ELSE "files",
                  hit |-> FALSE, data |-> <<>>]
    /\ UNCHANGED clock
    /\ OthersIdleForCache

Tick ==
    /\ clock + TickHours <= MaxClock
    /\ clock' = clock + TickHours
    /\ c_last' = [op |-> "tick", key |-> "", found |-> "", hit |-> FALSE, data |-> <<>>]
    /\ UNCHANGED cache_files
    /\ OthersIdleForCache

CacheNext ==
    \/ \E key \in CacheKeys, data \in Payloads : Save(key, data)
    \/ \E key \in CacheKeys : Load(key)
    \/ \E symbol \in CacheKeys \cup {""} : ClearCache(symbol)
    \/ Tick

data_sources == <<"yahoo_finance", "alpha_vantage", "mock_data">>
SourceIds == 1..Len(data_sources)
FromCache == Len(data_sources) + 1

\* self.config.get('max_retries', 3) and self.config.get('retry_delay', 1)
max_retries == 3
retry_delay == 1

\* cache_age < 3600 seconds, on the clock in hours.
list_cache_hours == 1

\* date.weekday < 5 with day 0 a Saturday.
IsWeekday(d) == (d + 5) % 7 < 5

RECURSIVE WeekdaysFrom(_, _)
WeekdaysFrom(d, end) ==
    IF d > end THEN <<>>
    ELSE (IF IsWeekday(d) THEN <<d>> ELSE <<>>) \o WeekdaysFrom(d + 1, end)

\* The row a source reports for a day.  Sources quote different prices and
\* more decimals than the validator keeps.
SourceRow(s, d, shape) ==
    LET p == 1000 * s + 4
        row == [date |-> <<d>>, open |-> <<p>>, high |-> <<p + 10>>,
                low |-> <<p - 10>>, close |-> <<p>>, volume |-> <<5>>]
    IN  CASE shape = "table"    -> row
          [] shape = "unusable" -> [row EXCEPT !.close = NaN]
          [] shape = "broken"   -> [row EXCEPT !.high = <<p - 20>>]

SourceTable(s, req, shape) ==
    LET days == WeekdaysFrom(req.start, req.end)
    IN  [columns |-> required_columns,
         rows |-> [i \in 1..Len(days) |-> SourceRow(s, days[i], shape)]]

\* What one call of an adapter's get_etf_data can do: raise inside its own
\* try (it records last_error and returns None), return None without an
\* error, return an empty frame, or return a frame of the trading days.
AdapterOutcomes(s) ==
    IF data_sources[s] = "mock_data" THEN {"generated"}
    ELSE {"error", "none", "empty", "unusable", "broken", "table"}

source_get_etf_data(s, req, outcome) ==
    CASE outcome = "error" -> [raw |-> None, error |-> TRUE]
      [] outcome = "none"  -> [raw |-> None, error |-> FALSE]
      [] outcome = "empty" ->
            [raw |-> Some([columns |-> required_columns, rows |-> <<>>]), error |-> FALSE]
      [] outcome = "generated" ->
            IF WeekdaysFrom(req.start, req.end) = <<>>
            THEN [raw |-> None, error |-> FALSE]
            ELSE [raw |-> Some(SourceTable(s, req, "table")), error |-> FALSE]
      [] OTHER -> [raw |-> Some(SourceTable(s, req, outcome)), error |-> FALSE]

RECURSIVE MinDate(_)
MinDate(rows) ==
    IF Len(rows) = 1 THEN rows[1].date
    ELSE IF rows[1].date <= MinDate(Tail(rows)) THEN rows[1].date ELSE MinDate(Tail(rows))

RECURSIVE MaxDate(_)
MaxDate(rows) ==
    IF Len(rows) = 1 THEN rows[1].date
    ELSE IF rows[1].date >= MaxDate(Tail(rows)) THEN rows[1].date ELSE MaxDate(Tail(rows))

\* The cached series must cover the requested range.
_is_cache_valid(cached_data, req) ==
    /\ cached_data /= <<>>
    /\ MinDate(cached_data) <= req.start
    /\ MaxDate(cached_data) >= req.end

\* A plausible slip: the availability flags are not consulted.
NextSource_ignores_flags(avail, i) == IF i <= Len(data_sources) THEN i ELSE 0

\* The first source at or after position i that is not skipped, 0 if none.
NextSource(avail, i) ==
    IF \E s \in SourceIds : s >= i /\ avail[s]
    THEN CHOOSE s \in SourceIds : s >= i /\ avail[s] /\ \A t \in i..(s - 1) : ~avail[t]
    ELSE 0

\* The whole map is rebuilt: the failed source off, every other one on.
MarkUnavailable_rearms(avail, err, s) ==
    IF err[s] THEN [t \in DOMAIN avail |-> t /= s] ELSE avail

\* After the retries of a source: if source.last_error: is_available = False.
MarkUnavailable(avail, err, s) ==
    IF err[s] THEN [avail EXCEPT ![s] = FALSE] ELSE avail

(***************************************************************************)
(* A run of the loader: the dashboard asks for one date range, again and   *)
(* again, between symbol-list requests, connection tests, cache clears and *)
(* the passing of time.  A call of get_etf_data advances one adapter       *)
(* attempt at a time; the other operations start only between calls.       *)
(***************************************************************************)
MaxDay == 3

\* Two-day ranges: a weekend, a Sunday and a Monday, two trading days.
Requests == {[start |-> a, end |-> a + 1] : a \in 0..(MaxDay - 1)}

NoList == [ok |-> FALSE, cached |-> FALSE]
\* The last step: the operation, the sources test_all_sources brought back,
\* and for an adapter attempt the cache file it ran over and the seconds of
\* time.sleep that followed it.
\* fetches and sleeps count the adapter calls and the time.sleep calls of
\* the get_etf_data call in progress (or just returned).
Step(op) == [op |-> op, revived |-> {}, found |-> "", slept |-> 0,
             fetches |-> 0, sleeps |-> 0]

LoaderIdle ==
    /\ is_available = [s \in SourceIds |-> TRUE]
    /\ last_error = [s \in SourceIds |-> FALSE]
    /\ l_req = [start |-> 0, end |-> 0]
    /\ l_pc = "off"
    /\ l_src = 0
    /\ l_attempt = 0
    /\ l_exhausted = {}
    /\ l_served = 0
    /\ l_result = None
    /\ l_at = 0
    /\ l_cleared = FALSE
    /\ l_list = NoList
    /\ l_last = Step("__init__")

\* MultiSourceDataLoader.__init__ and the request of this run.
LoaderInit ==
    /\ is_available = [s \in SourceIds |-> TRUE]
    /\ last_error = [s \in SourceIds |-> FALSE]
    /\ l_req \in Requests
    /\ l_pc = "idle"
    /\ l_src = 0
    /\ l_attempt = 0
    /\ l_exhausted = {}
    /\ l_served = 0
    /\ l_result = None
    /\ l_at = 0
    /\ l_cleared = FALSE
    /\ l_list = NoList
    /\ l_last = Step("__init__")

\* get_etf_data returns.
Return(result, served) ==
    /\ l_pc' = "idle"
    /\ l_src' = 0
    /\ l_attempt' = 0
    /\ l_result' = result
    /\ l_served' = served
    /\ l_at' = clock
    /\ l_cleared' = FALSE

\* get_etf_data up to its first adapter call: the cache lookup, and the
\* skipping of unavailable sources.
GetEtfData ==
    /\ l_pc = "idle"
    /\ LET cached == load(cache_files, "etf_data", clock)
           first == NextSource(is_available, 1)
       IN  /\ cache_files' = cached.files
           /\ IF cached.hit /\ _is_cache_valid(cached.data, l_req)
              THEN Return(Some(cached.data), FromCache)
              ELSE IF first = 0
              THEN Return(None, 0)
              ELSE /\ l_pc' = "fetch"
                   /\ l_src' = first
                   /\ l_attempt' = 0
                   /\ UNCHANGED <<l_result, l_served, l_at, l_cleared>>
    /\ l_exhausted' = {}
    /\ l_last' = Step("get_etf_data")
    /\ UNCHANGED <<is_available, last_error, l_req, l_list, clock>>
    /\ OthersIdleForLoader

\* A plausible slip: when the retries end, the last table is cached although
\* the validator refused it.
Attempt_caches_refused(outcome) ==
    /\ l_pc = "fetch"
    /\ outcome \in AdapterOutcomes(l_src)
    /\ LET got == source_get_etf_data(l_src, l_req, outcome)
           err == [last_error EXCEPT ![l_src] = @ \/ got.error]
           validated_data == IF got.raw.ok /\ got.raw.rows.rows /= <<>>
                             THEN validate_price_data(got.raw.rows)
                             ELSE None
           avail == MarkUnavailable(is_available, err, l_src)
           next == NextSource(avail, l_src + 1)
           \* if attempt < self.max_retries - 1: time.sleep(self.retry_delay),
           \* after a pass that did not return, with or without an exception.
           slept == IF ~validated_data.ok /\ l_attempt < max_retries - 1
                    THEN retry_delay ELSE 0
       IN  /\ last_error' = err
           /\ l_last' = [Step("attempt") EXCEPT
                             !.found = cache_files["etf_data"].kind, !.slept = slept,
                             !.fetches = l_last.fetches + 1,
                             !.sleeps = l_last.sleeps + (IF slept > 0 THEN 1 ELSE 0)]
           /\ IF validated_data.ok
              THEN /\ cache_files' = save(cache_files, "etf_data", validated_data.rows, clock)
                   /\ Return(validated_data, l_src)
                   /\ UNCHANGED <<is_available, l_exhausted>>
              ELSE IF l_attempt + 1 < max_retries
              THEN /\ l_attempt' = l_attempt + 1
                   /\ UNCHANGED <<cache_files, is_available, l_exhausted, l_pc, l_src,
                                  l_result, l_served, l_at, l_cleared>>
              ELSE /\ is_available' = avail
                   /\ l_exhausted' = l_exhausted \cup {l_src}
                   /\ cache_files' = IF got.raw.ok /\ got.raw.rows.rows /= <<>>
                                     THEN save(cache_files, "etf_data", got.raw.rows.rows, clock)
                                     ELSE cache_files
                   /\ IF next = 0
                      THEN Return(None, 0)
                      ELSE /\ l_src' = next
                           /\ l_attempt' = 0
                           /\ UNCHANGED <<l_pc, l_result, l_served, l_at, l_cleared>>
    /\ UNCHANGED <<l_req, l_list, clock>>
    /\ OthersIdleForLoader

Outcomes == {"error", "none", "empty", "unusable", "broken", "table", "generated"}

\* if raw_data is not None and not raw_data.empty: validate_price_data(raw_data),
\* for every answer an adapter can give to a request (worked out once).
Validated ==
    [s \in SourceIds, req \in Requests, outcome \in Outcomes |->
        LET got == source_get_etf_data(s, req, outcome)
        IN  IF got.raw.ok /\ got.raw.rows.rows /= <<>>
            THEN validate_price_data(got.raw.rows)
            ELSE None]

\* A plausible slip: the loop sleeps after every failed pass, the last of a
\* source included.
RetrySleep_after_every_pass(failed, attempt) == IF failed THEN retry_delay ELSE 0

\* if attempt < self.max_retries - 1: time.sleep(self.retry_delay), after a
\* pass that did not return, with or without an exception.
RetrySleep(failed, attempt) ==
    IF failed /\ attempt < max_retries - 1 THEN retry_delay ELSE 0

\* DataCache.save when the file system may refuse: open(cache_file, 'wb')
\* raises and the file stays, or pickle.dump raises after the file was
\* truncated; save logs and raises again.
save_on(files, key, data, now, written) ==
    CASE written = "ok"         -> save(files, key, data, now)
      [] written = "open_fails" -> files
      [] written = "dump_fails" -> [files EXCEPT ![key] = CorruptEntry]

\* One pass of the retry loop on the current source, with what follows it:
\* the return on success, the next attempt, or the end of the retries.  An
\* exception of cache.save is caught like one of the adapter: last_error is
\* set and the pass counts as failed.
AttemptOn(outcome, written) ==
    /\ l_pc = "fetch"
    /\ outcome \in AdapterOutcomes(l_src)
    /\ LET got == source_get_etf_data(l_src, l_req, outcome)
           validated_data == Validated[l_src, l_req, outcome]
           save_raised == validated_data.ok /\ written /= "ok"
           returned == validated_data.ok /\ written = "ok"
           err == [last_error EXCEPT ![l_src] = @ \/ got.error \/ save_raised]
           avail == MarkUnavailable(is_available, err, l_src)
           next == NextSource(avail, l_src + 1)
           slept == RetrySleep(~returned, l_attempt)
       IN  /\ last_error' = err
           /\ l_last' = [Step("attempt") EXCEPT
                             !.found = cache_files["etf_data"].kind, !.slept = slept,
                             !.fetches = l_last.fetches + 1,
                             !.sleeps = l_last.sleeps + (IF slept > 0 THEN 1 ELSE 0)]
           /\ cache_files' = IF validated_data.ok
                             THEN save_on(cache_files, "etf_data", validated_data.rows,
                                          clock, written)
                             ELSE cache_files
           /\ IF returned
              THEN /\ Return(validated_data, l_src)
                   /\ UNCHANGED <<is_available, l_exhausted>>
              ELSE IF l_attempt + 1 < max_retries
              THEN /\ l_attempt' = l_attempt + 1
                   /\ UNCHANGED <<is_available, l_exhausted, l_pc, l_src,
                                  l_result, l_served, l_at, l_cleared>>
              ELSE /\ is_available' = avail
                   /\ l_exhausted' = l_exhausted \cup {l_src}
                   /\ IF next = 0
                      THEN Return(None, 0)
                      ELSE /\ l_src' = next
                           /\ l_attempt' = 0
                           /\ UNCHANGED <<l_pc, l_result, l_served, l_at, l_cleared>>
    /\ UNCHANGED <<l_req, l_list, clock>>
    /\ OthersIdleForLoader

\* The pass over a cache directory that can be written.
Attempt(outcome) == AttemptOn(outcome, "ok")

\* get_etf_list: every adapter answers with its built-in list at once, so
\* the first available source serves it; if none is available, None.
GetEtfList ==
    /\ l_pc = "idle"
    /\ LET cached_list == load(cache_files, "etf_list", clock)
           first == NextSource(is_available, 1)
       IN  IF cached_list.hit /\ clock - cached_list.data.timestamp < list_cache_hours
           THEN /\ cache_files' = cached_list.files
                /\ l_list' = [ok |-> TRUE, cached |-> TRUE]
           ELSE IF first = 0
           THEN /\ cache_files' = cached_list.files
                /\ l_list' = NoList
           ELSE /\ cache_files' = save(cached_list.files, "etf_list",
                                       [data |-> "etf_list", timestamp |-> clock], clock)
                /\ l_list' = [ok |-> TRUE, cached |-> FALSE]
    /\ l_last' = Step("get_etf_list")
    /\ UNCHANGED <<is_available, last_error, l_req, l_pc, l_src, l_attempt, l_exhausted,
                   l_served, l_result, l_at, l_cleared, clock>>
    /\ OthersIdleForLoader

\* test_all_sources: each flag becomes what test_connection answers; the
\* adapters' probes swallow their errors and the mock's always succeeds.
TestAllSources(is_connected) ==
    /\ l_pc = "idle"
    /\ \A s \in SourceIds : data_sources[s] = "mock_data" => is_connected[s]
    /\ is_available' = is_connected
    /\ l_last' = [Step("test_all_sources") EXCEPT
                      !.revived = {s \in SourceIds : ~is_available[s] /\ is_connected[s]}]
    /\ UNCHANGED <<last_error, l_req, l_pc, l_src, l_attempt, l_exhausted,
                   l_served, l_result, l_at, l_cleared, l_list, cache_files, clock>>
    /\ OthersIdleForLoader

\* loader.cache.clear_cache(symbol) between two calls.
ClearLoaderCache(symbol) ==
    /\ l_pc = "idle"
    /\ cache_files' = clear_cache(cache_files, symbol)
    /\ l_cleared' = (l_cleared \/ symbol \in {"", "etf_data"})
    /\ l_last' = Step("clear_cache")
    /\ UNCHANGED <<is_available, last_error, l_req, l_pc, l_src, l_attempt, l_exhausted,
                   l_served, l_result, l_at, l_list, clock>>
    /\ OthersIdleForLoader

\* Time passes between two calls (a call lasts seconds, the clock counts hours).
PassTime ==
    /\ l_pc = "idle"
    /\ clock + TickHours <= MaxClock
    /\ clock' = clock + TickHours
    /\ l_last' = Step("tick")
    /\ UNCHANGED <<is_available, last_error, l_req, l_pc, l_src, l_attempt, l_exhausted,
                   l_served, l_result, l_at, l_cleared, l_list, cache_files>>
    /\ OthersIdleForLoader

LoaderNext ==
    \/ GetEtfData
    \/ \E outcome \in {"error", "none", "empty", "unusable", "broken", "table", "generated"} :
            Attempt(outcome)
    \/ GetEtfList
    \/ \E is_connected \in [SourceIds -> BOOLEAN] : TestAllSources(is_connected)
    \/ \E symbol \in CacheKeys \cup {""} : ClearLoaderCache(symbol)
    \/ PassTime

\* The steps of a run that asks for series only.
FetchNext ==
    \/ GetEtfData
    \/ \E outcome \in {"error", "none", "empty", "unusable", "broken", "table", "generated"} :
            Attempt(outcome)
    \/ \E is_connected \in [SourceIds -> BOOLEAN] : TestAllSources(is_connected)
    \/ \E symbol \in CacheKeys \cup {""} : ClearLoaderCache(symbol)
    \/ PassTime

(***************************************************************************)
(* C1: when a call of get_etf_data is answered by a source after sources   *)
(* before it used up all their attempts, the result is that source's       *)
(* validated series and every source that used up its attempts is marked   *)
(* unavailable.                                                            *)
(***************************************************************************)
C1_FailoverMarksFailedSource ==
    (l_last.op = "attempt" /\ l_pc = "idle" /\ l_served \in SourceIds) =>
        /\ l_result = validate_price_data(SourceTable(l_served, l_req, "table"))
        /\ \A a \in l_exhausted : ~is_available[a]

(***************************************************************************)
(* C2: a call of get_etf_data that follows, within the cache's expiry time *)
(* and with no clear in between, a call that an adapter answered with a    *)
(* series is answered from the cache with the same series, and no adapter  *)
(* is called.                                                              *)
(***************************************************************************)
C2_SecondCallServedFromCache ==
    [][(/\ l_last'.op = "get_etf_data"
        /\ l_pc = "idle"
        /\ l_result.ok
        /\ l_served \in SourceIds
        /\ ~l_cleared
        /\ clock <= l_at + cache_expiry_hours)
       => (l_pc' = "idle" /\ l_served' = FromCache /\ l_result' = l_result)]_vars

(***************************************************************************)
(* C5: a source's is_available goes from False to True only in a step of   *)
(* test_all_sources.                                                       *)
(***************************************************************************)
C5_RevivedOnlyByTest ==
    [][\A s \in SourceIds :
            (~is_available[s] /\ is_available'[s]) => l_last'.op = "test_all_sources"]_vars

\* test_all_sources has just brought a source back.
C5_Witness ==
    /\ l_last.op = "test_all_sources"
    /\ l_last.revived /= {}
    /\ \E s \in l_last.revived : last_error[s] /\ is_available[s]

(***************************************************************************)
(* C6: a series returned by get_etf_data has at least one row, and a call  *)
(* that no source and no cache entry answered returns None.                *)
(***************************************************************************)
C6_NoEmptySuccess ==
    /\ l_result.ok => l_result.rows /= <<>>
    /\ (l_pc = "idle" /\ l_served = 0) => ~l_result.ok

\* Every source was tried to the end and the call returned None.
C6_Witness ==
    /\ l_last.op = "attempt"
    /\ l_pc = "idle"
    /\ l_exhausted = SourceIds
    /\ l_served = 0
    /\ ~l_result.ok

(***************************************************************************)
(* C15: over a series file that does not unpickle, get_etf_data takes the  *)
(* lookup as a miss and goes to the first available adapter (or returns    *)
(* None when there is none); when an adapter then delivers a series that   *)
(* validates, that series is returned and its entry replaces the file.     *)
(***************************************************************************)
C15_CorruptEntryIsMiss ==
    [][cache_files["etf_data"] = CorruptEntry =>
          /\ (l_last'.op = "get_etf_data" =>
                 /\ cache_files' = cache_files
                 /\ IF \E s \in SourceIds : is_available[s]
                    THEN l_pc' = "fetch" /\ l_src' = NextSource(is_available, 1)
                    ELSE l_pc' = "idle" /\ ~l_result'.ok)
          /\ ((l_last'.op = "attempt" /\ l_pc' = "idle" /\ l_result'.ok) =>
                 /\ l_served' \in SourceIds
                 /\ cache_files'["etf_data"] = CacheEntry(l_result'.rows, clock))]_vars

(***************************************************************************)
(* C18: within a call of get_etf_data the adapter in use is one marked     *)
(* available and a change of adapter goes down the priority list; every    *)
(* adapter before the one in use is unavailable (skipped) or has failed    *)
(* max_retries attempts in this call; and the call returns None only when  *)
(* every adapter is unavailable or has failed max_retries attempts.        *)
(***************************************************************************)
C18_SequentialFailover ==
    [][/\ l_pc' = "fetch" =>
              /\ is_available'[l_src']
              /\ (l_pc = "fetch" /\ l_src' /= l_src) => l_src' > l_src
              /\ \A t \in 1..(l_src' - 1) : ~is_available'[t] \/ t \in l_exhausted'
       /\ \A t \in l_exhausted' \ l_exhausted :
              /\ l_pc = "fetch" /\ t = l_src
              /\ l_attempt = max_retries - 1
              /\ ~(l_pc' = "idle" /\ l_result'.ok)
       /\ (l_last'.op \in {"get_etf_data", "attempt"} /\ l_pc' = "idle" /\ ~l_result'.ok) =>
              \A t \in SourceIds : ~is_available'[t] \/ t \in l_exhausted']_vars

\* The first adapter was skipped, the second used up its attempts, the
\* third is in use.
C18_Witness ==
    /\ l_last.op = "attempt"
    /\ l_pc = "fetch"
    /\ l_src = 3
    /\ ~is_available[1]
    /\ l_exhausted = {2}

(***************************************************************************)
(* C19: an adapter is attempted at most max_retries times in a call, and   *)
(* the sleep after its k-th failed attempt, before attempt k+1, lasts      *)
(* retry_delay x k.                                                        *)
(***************************************************************************)
C19_RetryDelayGrows ==
    [][l_last'.op = "attempt" =>
          /\ l_attempt < max_retries
          /\ (l_pc' = "fetch" /\ l_src' = l_src /\ l_attempt' = l_attempt + 1) =>
                 l_last'.slept = retry_delay * (l_attempt + 1)]_vars

(***************************************************************************)
(* C20: the cache file of the series becomes a new entry only in the step  *)
(* in which an adapter's table passed validate_price_data and the call     *)
(* returned it, and the entry holds exactly that series; an adapter pass   *)
(* that does not return a series writes nothing.                           *)
(***************************************************************************)
C20_EntryOnlyFromValidatedFetch ==
    [][/\ (/\ cache_files'["etf_data"] /= cache_files["etf_data"]
           /\ cache_files'["etf_data"].kind = "entry") =>
              /\ l_last'.op = "attempt"
              /\ l_pc = "fetch" /\ l_pc' = "idle"
              /\ l_result'.ok /\ l_served' = l_src
              /\ cache_files'["etf_data"] = CacheEntry(l_result'.rows, clock)
              /\ \E outcome \in AdapterOutcomes(l_src) :
                     LET got == source_get_etf_data(l_src, l_req, outcome)
                     IN  got.raw.ok /\ validate_price_data(got.raw.rows) = l_result'
       /\ (l_last'.op = "attempt" /\ ~(l_pc' = "idle" /\ l_result'.ok)) =>
              cache_files' = cache_files]_vars

\* The second adapter's series was validated, returned and cached where
\* there was no file.
C20_Witness ==
    /\ l_last.op = "attempt"
    /\ l_last.found = "absent"
    /\ l_pc = "idle"
    /\ l_served = 2
    /\ l_result.ok
    /\ cache_files["etf_data"] = CacheEntry(l_result.rows, clock)

\* A call that found the unreadable file has returned a fetched series.
C15_Witness ==
    /\ l_last.op = "attempt"
    /\ l_last.found = "corrupt"
    /\ l_pc = "idle"
    /\ l_result.ok
    /\ l_served \in SourceIds
    /\ cache_files["etf_data"] = CacheEntry(l_result.rows, clock)

(***************************************************************************)
(* C24: the symbol list is cached longer than a series.  When the list     *)
(* and a series were cached at the same time, every get_etf_list call made *)
(* while get_etf_data would still answer from the cache is answered from   *)
(* the cache too.                                                          *)
(***************************************************************************)
C24_ListCachedLongerThanSeries ==
    [][(/\ l_last'.op = "get_etf_list"
        /\ cache_files["etf_list"].kind = "entry"
        /\ cache_files["etf_data"].kind = "entry"
        /\ cache_files["etf_list"].timestamp = cache_files["etf_data"].timestamp
        /\ LET cached == load(cache_files, "etf_data", clock)
           IN  cached.hit /\ _is_cache_valid(cached.data, l_req))
            => l_list'.cached]_vars

\* Series requests over a cache directory that cannot always be written.
AttemptOnDisk ==
    \E outcome \in Outcomes, written \in FailingDisk :
        AttemptOn(outcome, written)

RetryNext ==
    \/ GetEtfData
    \/ AttemptOnDisk
    \/ \E is_connected \in [SourceIds -> BOOLEAN] : TestAllSources(is_connected)

(***************************************************************************)
(* C28: every get_etf_data call terminates, and by then it has called the  *)
(* adapters at most (number of adapters x max_retries) times and slept at  *)
(* most (number of adapters x (max_retries - 1)) times, whether the        *)
(* adapters, the validator or the cache write fail.                        *)
(***************************************************************************)
C28_GetEtfDataTerminatesWithinBounds ==
    /\ [](/\ l_last.fetches <= Len(data_sources) * max_retries
          /\ l_last.sleeps <= Len(data_sources) * (max_retries - 1))
    /\ (l_pc = "fetch" ~> l_pc = "idle")

\* A call that used every attempt of every adapter and returned None.
C28_Witness ==
    /\ l_pc = "idle"
    /\ l_last.op = "attempt"
    /\ ~l_result.ok
    /\ l_last.fetches = Len(data_sources) * max_retries
    /\ l_last.sleeps = Len(data_sources) * (max_retries - 1)

(***************************************************************************)
(* DataCache under threads.  save and load take no lock and save writes    *)
(* the cache file in place, so a call is a sequence of file-system steps   *)
(* that other threads' steps can come between: open(cache_file, 'wb')      *)
(* empties the file, pickle.dump writes the payload through the buffered   *)
(* file object in ChunkCount writes at the writer's own offset, and the    *)
(* end of the with block closes.  load reads the file as it is then, and   *)
(* when the entry it read has expired it removes the file by its path in a *)
(* later step.  os.remove is the POSIX unlink: a writer that has the file  *)
(* open goes on writing to a file no path leads to.                        *)
(***************************************************************************)
NumThreads == 2
ChunkCount == 2
MaxSaves == 2

Threads == 1..NumThreads

Chunk(data, part) == [data |-> data, part |-> part]
Hole == Chunk("", 0)
ChunksOf(data) == [i \in 1..ChunkCount |-> Chunk(data, i)]

NoCacheFile == [exists |-> FALSE, chunks |-> <<>>]
WholeFile(data) == [exists |-> TRUE, chunks |-> ChunksOf(data)]

\* A write of one chunk at position i; a gap left by another writer's
\* truncation reads as zero bytes.
WriteAt(chunks, i, c) ==
    [j \in 1..(IF Len(chunks) > i THEN Len(chunks) ELSE i) |->
        IF j = i THEN c ELSE IF j <= Len(chunks) THEN chunks[j] ELSE Hole]

\* The payload of an entry saved more than cache_expiry_hours ago; the
\* payloads saved during the run are fresh.
StalePayload == "old"

IsWhole(chunks) == \E data \in Payloads \cup {StalePayload} : chunks = ChunksOf(data)

\* What pickle.load makes of the file: the payload of a whole file; a file
\* cut short or mixed raises, and load answers None.
ReadFile(file) ==
    IF ~file.exists THEN [found |-> "absent", data |-> ""]
    ELSE IF ~IsWhole(file.chunks) THEN [found |-> "partial", data |-> ""]
    ELSE IF file.chunks[1].data = StalePayload THEN [found |-> "expired", data |-> ""]
    ELSE [found |-> "whole", data |-> file.chunks[1].data]

ConcIdle ==
    /\ k_file = NoCacheFile
    /\ k_pc = [t \in Threads |-> "off"]
    /\ k_data = [t \in Threads |-> ""]
    /\ k_off = [t \in Threads |-> 0]
    /\ k_done = <<>>
    /\ k_seen = [t \in Threads |-> [found |-> "", data |-> ""]]

ConcInit ==
    /\ k_file \in {NoCacheFile} \cup {WholeFile(data) : data \in Payloads \cup {StalePayload}}
    /\ k_pc = [t \in Threads |-> "idle"]
    /\ k_data = [t \in Threads |-> ""]
    /\ k_off = [t \in Threads |-> 0]
    /\ k_done = <<>>
    /\ k_seen = [t \in Threads |-> [found |-> "", data |-> ""]]

Writing == {"writing", "unlinked"}

SavesBegun == Len(k_done) + Cardinality({t \in Threads : k_pc[t] \in Writing})

\* save, up to and including open(cache_file, 'wb').
SaveOpen(t, data) ==
    /\ k_pc[t] = "idle"
    /\ SavesBegun < MaxSaves
    /\ k_file' = [exists |-> TRUE, chunks |-> <<>>]
    /\ k_pc' = [k_pc EXCEPT ![t] = "writing"]
    /\ k_data' = [k_data EXCEPT ![t] = data]
    /\ k_off' = [k_off EXCEPT ![t] = 0]
    /\ UNCHANGED <<k_done, k_seen>>
    /\ OthersIdleForConc

\* pickle.dump: the next write of the payload.
SaveWrite(t) ==
    /\ k_pc[t] \in Writing
    /\ k_off[t] < ChunkCount
    /\ k_file' = IF k_pc[t] = "unlinked" THEN k_file
                 ELSE [k_file EXCEPT !.chunks =
                          WriteAt(@, k_off[t] + 1, Chunk(k_data[t], k_off[t] + 1))]
    /\ k_off' = [k_off EXCEPT ![t] = @ + 1]
    /\ UNCHANGED <<k_pc, k_data, k_done, k_seen>>
    /\ OthersIdleForConc

\* The with block ends: the file is closed and save returns.
SaveClose(t) ==
    /\ k_pc[t] \in Writing
    /\ k_off[t] = ChunkCount
    /\ k_pc' = [k_pc EXCEPT ![t] = "idle"]
    /\ k_done' = Append(k_done, k_data[t])
    /\ UNCHANGED <<k_file, k_data, k_off, k_seen>>
    /\ OthersIdleForConc

\* load by a thread that is not saving, up to the expiry check: it returns
\* unless the entry it read has expired.
LoadFile(t) ==
    /\ k_pc[t] = "idle"
    /\ k_seen' = [k_seen EXCEPT ![t] = ReadFile(k_file)]
    /\ k_pc' = [k_pc EXCEPT ![t] = IF ReadFile(k_file).found = "expired"
                                    THEN "evicting" ELSE "idle"]
    /\ UNCHANGED <<k_file, k_data, k_off, k_done>>
    /\ OthersIdleForConc

\* load, from _remove_cache_file(cache_file) on: whatever is under the path
\* by now is removed, and load returns None.
RemoveCacheFile(t) ==
    /\ k_pc[t] = "evicting"
    /\ k_file' = NoCacheFile
    /\ k_pc' = [u \in Threads |->
                    IF u = t THEN "idle"
                    ELSE IF k_pc[u] = "writing" /\ k_file.exists THEN "unlinked"
                    ELSE k_pc[u]]
    /\ UNCHANGED <<k_data, k_off, k_done, k_seen>>
    /\ OthersIdleForConc

ConcNext ==
    \/ \E t \in Threads, data \in Payloads : SaveOpen(t, data)
    \/ \E t \in Threads : SaveWrite(t)
    \/ \E t \in Threads : SaveClose(t)
    \/ \E t \in Threads : LoadFile(t)
    \/ \E t \in Threads : RemoveCacheFile(t)

(***************************************************************************)
(* C4: at every instant the cache file is absent or holds one whole        *)
(* payload, no load reads a file that is cut short or mixed, and when no   *)
(* save is in progress the file holds the payload of the save that         *)
(* completed last.                                                         *)
(***************************************************************************)
C4_EntryWholeAndLastSaveWins ==
    /\ ~k_file.exists \/ IsWhole(k_file.chunks)
    /\ \A t \in Threads : k_seen[t].found /= "partial"
    /\ ((\A t \in Threads : k_pc[t] = "idle") /\ k_done /= <<>>)
            => k_file = WholeFile(k_done[Len(k_done)])

(***************************************************************************)
(* C27: expiry eviction does not destroy fresh data.  When a load has read *)
(* an expired entry and a save of a fresh entry has completed, then once   *)
(* no call is in progress the cache file is still there: the eviction      *)
(* removed only the stale entry the load had read.                         *)
(***************************************************************************)
C27_EvictionSparesFreshEntry ==
    (/\ \A t \in Threads : k_pc[t] = "idle"
     /\ \E t \in Threads : k_seen[t].found = "expired"
     /\ k_done /= <<>>)
        => k_file.exists

(***************************************************************************)
(* Specifications: one per component, the other components held idle.      *)
(***************************************************************************)
InitValidator ==
    ValidatorInit /\ RsiIdle /\ SignalIdle /\ PortfolioIdle /\ CacheIdle /\ LoaderIdle /\ ConcIdle
        /\ DrawdownIdle /\ TrendIdle
SpecValidator == InitValidator /\ [][ValidatorNext]_vars

\* The validator followed by the indicator that reads its output.
SpecPipeline == InitValidator /\ [][PipelineNext]_vars

InitRSI ==
    RsiInit /\ ValidatorIdle /\ SignalIdle /\ PortfolioIdle /\ CacheIdle /\ LoaderIdle /\ ConcIdle
        /\ DrawdownIdle /\ TrendIdle
SpecRSI == InitRSI /\ [][RsiNext]_vars

InitSignal ==
    SignalInit /\ ValidatorIdle /\ RsiIdle /\ PortfolioIdle /\ CacheIdle /\ LoaderIdle /\ ConcIdle
        /\ DrawdownIdle /\ TrendIdle
SpecSignal == InitSignal /\ [][SignalNext]_vars

InitTrend ==
    TrendInit /\ ValidatorIdle /\ RsiIdle /\ SignalIdle /\ PortfolioIdle /\ CacheIdle /\ LoaderIdle
        /\ ConcIdle /\ DrawdownIdle
SpecTrend == InitTrend /\ [][TrendNext]_vars

InitPortfolio ==
    PortfolioInit /\ ValidatorIdle /\ RsiIdle /\ SignalIdle /\ CacheIdle /\ LoaderIdle /\ ConcIdle
        /\ DrawdownIdle /\ TrendIdle
SpecPortfolio == InitPortfolio /\ [][PortfolioNext]_vars

SpecRebalance == InitPortfolio /\ [][RebalanceNext]_vars

SpecPersist == InitPortfolio /\ [][PersistNext]_vars

InitCache ==
    CacheInit /\ ValidatorIdle /\ RsiIdle /\ SignalIdle /\ PortfolioIdle /\ LoaderIdle /\ ConcIdle
        /\ DrawdownIdle /\ TrendIdle
SpecCache == InitCache /\ [][CacheNext]_vars

InitLoader ==
    LoaderInit /\ CacheIdle /\ ValidatorIdle /\ RsiIdle /\ SignalIdle /\ PortfolioIdle /\ ConcIdle
        /\ DrawdownIdle /\ TrendIdle
SpecLoader == InitLoader /\ [][LoaderNext]_vars

\* The series requests alone, over a cache directory that is empty or
\* holds a series file that does not unpickle.
InitFetch ==
    /\ LoaderInit
    /\ cache_files \in {[k \in CacheKeys |-> NoEntry],
                        [k \in CacheKeys |-> IF k = "etf_data" THEN CorruptEntry ELSE NoEntry]}
    /\ clock = 0
    /\ c_last = NoCacheCall
    /\ ValidatorIdle /\ RsiIdle /\ SignalIdle /\ PortfolioIdle /\ ConcIdle /\ DrawdownIdle /\ TrendIdle
SpecFetch == InitFetch /\ [][FetchNext]_vars

\* The series requests over a disk that may refuse the cache write.  A call
\* in progress goes on: the adapter call, the validation, the cache write
\* and time.sleep each return or raise.
SpecRetry == InitFetch /\ [][RetryNext]_vars /\ WF_vars(AttemptOnDisk)

InitConc ==
    ConcInit /\ CacheIdle /\ LoaderIdle /\ ValidatorIdle /\ RsiIdle /\ SignalIdle /\ PortfolioIdle
        /\ DrawdownIdle /\ TrendIdle
SpecCacheThreads == InitConc /\ [][ConcNext]_vars
====
